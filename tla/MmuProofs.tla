----------------------------- MODULE MmuProofs -----------------------------
(***************************************************************************)
(* Theorems about Mmu, for any pages, frames and calls: the page tables    *)
(* are trees, what was unmapped is not used any more, and the calls        *)
(* implement AddressMap.                                                   *)
(*                                                                         *)
(* The argument is that no table is led to twice.  So there is one way     *)
(* from a root to a last table, and a store into one of its entries        *)
(* changes one page of one address space.                                  *)
(***************************************************************************)
EXTENDS Mmu, TLAPS

----------------------------------------------------------------------------
(* The walk, in any tables T. *)

Has(T, t, i) == i \in DOMAIN T[t]
Entry(T, t, i) == T[t][i]
To(T, t, i) == T[t][i].to

BelowIn(T, S, i) == {T[t][i].to : t \in {u \in S : i \in DOMAIN T[u]}}
LastIn(T, r, v) == BelowIn(T, BelowIn(T, BelowIn(T, {r}, v[1]), v[2]), v[3])
WalkIn(T, r, v) == {T[t][v[4]] : t \in {u \in LastIn(T, r, v) : v[4] \in DOMAIN T[u]}}

LEMMA WalkIsIn ==
  ASSUME NEW r, NEW v
  PROVE  /\ LastTable(r, v) = LastIn(tables, r, v)
         /\ Walk(r, v) = WalkIn(tables, r, v)
         /\ Walk(r, v)' = WalkIn(tables', r, v)
  BY DEF LastTable, Walk, Below, LastIn, WalkIn, BelowIn

(* From table r the indices of v lead over a and b to c.                   *)
Leads(T, r, v, a, b, c) ==
  /\ Has(T, r, v[1]) /\ a = To(T, r, v[1])
  /\ Has(T, a, v[2]) /\ b = To(T, a, v[2])
  /\ Has(T, b, v[3]) /\ c = To(T, b, v[3])

LEMMA LastMembers ==
  ASSUME NEW T, NEW r, NEW v, NEW c
  PROVE  c \in LastIn(T, r, v) <=> \E a, b : Leads(T, r, v, a, b, c)
<1> DEFINE A == BelowIn(T, {r}, v[1])
           B == BelowIn(T, A, v[2])
<1>1. \A x : x \in A <=> Has(T, r, v[1]) /\ x = To(T, r, v[1])
  BY DEF BelowIn, Has, To
<1>2. \A x : x \in B <=> \E a \in A : Has(T, a, v[2]) /\ x = To(T, a, v[2])
  BY DEF BelowIn, Has, To
<1>3. c \in BelowIn(T, B, v[3]) <=> \E b \in B : Has(T, b, v[3]) /\ c = To(T, b, v[3])
  BY DEF BelowIn, Has, To
<1> HIDE DEF A, B
<1>4. c \in BelowIn(T, B, v[3]) <=> \E a, b : Leads(T, r, v, a, b, c)
  BY <1>1, <1>2, <1>3 DEF Leads
<1>5. QED
  BY <1>4 DEF LastIn, A, B

LEMMA WalkMembers ==
  ASSUME NEW T, NEW r, NEW v, NEW e
  PROVE  e \in WalkIn(T, r, v) <=>
           \E a, b, c : Leads(T, r, v, a, b, c) /\ Has(T, c, v[4]) /\ e = Entry(T, c, v[4])
<1>1. e \in WalkIn(T, r, v) <=>
        \E c \in LastIn(T, r, v) : Has(T, c, v[4]) /\ e = Entry(T, c, v[4])
  BY DEF WalkIn, Has, Entry
<1>2. QED
  BY <1>1, LastMembers

(* The tables D, of levels L, are trees. *)
Forest(T, D, L) ==
  /\ \A t \in D : \A i : Has(T, t, i) =>
       /\ L[t] = 1 => To(T, t, i) \in D /\ L[To(T, t, i)] = 2
       /\ L[t] = 2 => To(T, t, i) \in D /\ L[To(T, t, i)] = 3
       /\ L[t] = 3 => To(T, t, i) \in D /\ L[To(T, t, i)] = 4
  /\ \A t, u \in D : L[t] # 4 /\ L[u] # 4 =>
       \A i, j : Has(T, t, i) /\ Has(T, u, j) /\ To(T, u, j) = To(T, t, i) => u = t /\ j = i

Root(D, L, r) == r \in D /\ L[r] = 1

LEMMA LeadsDown ==
  ASSUME NEW T, NEW D, NEW L, Forest(T, D, L), NEW r, Root(D, L, r),
         NEW v, NEW a, NEW b, NEW c, Leads(T, r, v, a, b, c)
  PROVE  a \in D /\ L[a] = 2 /\ b \in D /\ L[b] = 3 /\ c \in D /\ L[c] = 4
<1>1. a \in D /\ L[a] = 2
  BY DEF Forest, Root, Leads
<1>2. b \in D /\ L[b] = 3
  BY <1>1 DEF Forest, Leads
<1>3. c \in D /\ L[c] = 4
  BY <1>2 DEF Forest, Leads
<1>4. QED
  BY <1>1, <1>2, <1>3

LEMMA OneParent ==
  ASSUME NEW T, NEW D, NEW L, Forest(T, D, L), NEW t \in D, NEW u \in D,
         L[t] # 4, L[u] # 4, NEW i, NEW j, Has(T, t, i), Has(T, u, j),
         To(T, u, j) = To(T, t, i)
  PROVE  u = t /\ j = i
  BY DEF Forest

(* One way only leads to a last table. *)
LEMMA OneWay ==
  ASSUME NEW T, NEW D, NEW L, Forest(T, D, L),
         NEW r, Root(D, L, r), NEW v, NEW a, NEW b, NEW c, Leads(T, r, v, a, b, c),
         NEW s, Root(D, L, s), NEW w, NEW x, NEW y, Leads(T, s, w, x, y, c)
  PROVE  s = r /\ w[1] = v[1] /\ w[2] = v[2] /\ w[3] = v[3]
<1>1. /\ a \in D /\ L[a] = 2 /\ b \in D /\ L[b] = 3
      /\ x \in D /\ L[x] = 2 /\ y \in D /\ L[y] = 3
  BY LeadsDown
<1>2. y = b /\ w[3] = v[3]
  <2>1. Has(T, b, v[3]) /\ Has(T, y, w[3]) /\ To(T, y, w[3]) = To(T, b, v[3])
    BY DEF Leads
  <2>2. L[b] # 4 /\ L[y] # 4
    BY <1>1
  <2>3. QED
    BY <1>1, <2>1, <2>2, OneParent
<1>3. x = a /\ w[2] = v[2]
  <2>1. Has(T, a, v[2]) /\ Has(T, x, w[2]) /\ To(T, x, w[2]) = To(T, a, v[2])
    BY <1>2 DEF Leads
  <2>2. L[a] # 4 /\ L[x] # 4
    BY <1>1
  <2>3. QED
    BY <1>1, <2>1, <2>2, OneParent
<1>4. s = r /\ w[1] = v[1]
  <2>1. Has(T, r, v[1]) /\ Has(T, s, w[1]) /\ To(T, s, w[1]) = To(T, r, v[1])
    BY <1>3 DEF Leads
  <2>2. L[r] # 4 /\ L[s] # 4 /\ r \in D /\ s \in D
    BY DEF Root
  <2>3. QED
    BY <2>1, <2>2, OneParent, Zenon
<1>5. QED
  BY <1>2, <1>3, <1>4

LEMMA SamePage ==
  ASSUME NEW v \in Page, NEW w \in Page,
         w[1] = v[1], w[2] = v[2], w[3] = v[3], w[4] = v[4]
  PROVE  w = v
<1>1. v \in [1 .. 4 -> Index] /\ w \in [1 .. 4 -> Index]
  BY MmuAssumption
<1>2. \A k \in 1 .. 4 : w[k] = v[k]
  OBVIOUS
<1>3. QED
  BY <1>1, <1>2

----------------------------------------------------------------------------
(* What the kinds of store do to the walks. *)

(* Table u is the same in both.                                            *)
Same(T, T2, u) ==
  \A j : /\ Has(T2, u, j) <=> Has(T, u, j)
         /\ Entry(T2, u, j) = Entry(T, u, j) /\ To(T2, u, j) = To(T, u, j)

(* Stores into last tables leave the ways to them alone, and so does a new *)
(* table.                                                                  *)
LEMMA WaysStay ==
  ASSUME NEW T, NEW D, NEW L, Forest(T, D, L), NEW T2,
         \A u \in D : L[u] # 4 => Same(T, T2, u),
         NEW r, Root(D, L, r), NEW v, NEW a, NEW b, NEW c
  PROVE  Leads(T2, r, v, a, b, c) <=> Leads(T, r, v, a, b, c)
<1>1. Same(T, T2, r)
  BY DEF Root
<1>2. ASSUME Has(T, r, v[1]), a = To(T, r, v[1])
      PROVE  Same(T, T2, a) /\ a \in D /\ L[a] = 2
  BY <1>2 DEF Root, Forest
<1>3. ASSUME a \in D, L[a] = 2, Has(T, a, v[2]), b = To(T, a, v[2])
      PROVE  Same(T, T2, b)
  BY <1>3 DEF Forest
<1>4. QED
  BY <1>1, <1>2, <1>3 DEF Leads, Same

LEMMA UnchangedWalks ==
  ASSUME NEW T, NEW D, NEW L, Forest(T, D, L), NEW T2,
         \A u \in D : Same(T, T2, u), NEW r, Root(D, L, r), NEW v
  PROVE  WalkIn(T2, r, v) = WalkIn(T, r, v)
<1>1. ASSUME NEW a, NEW b, NEW c, Leads(T, r, v, a, b, c)
      PROVE  Same(T, T2, c)
  BY <1>1, LeadsDown
<1>2. ASSUME NEW a, NEW b, NEW c
      PROVE  Leads(T2, r, v, a, b, c) <=> Leads(T, r, v, a, b, c)
  BY WaysStay
<1>3. \A e : e \in WalkIn(T2, r, v) <=> e \in WalkIn(T, r, v)
  BY <1>1, <1>2, WalkMembers DEF Same
<1>4. QED
  BY <1>3

(* The entry was not there: whoever came to it went no further before, and *)
(* finds an empty table now.                                               *)
LEMMA NewTableKeepsWalks ==
  ASSUME NEW T, NEW D, NEW L, Forest(T, D, L), NEW T2, NEW f, \A j : ~Has(T2, f, j),
         NEW t \in D, L[t] # 4, NEW i, ~Has(T, t, i), To(T2, t, i) = f,
         \A j : j # i => /\ Has(T2, t, j) <=> Has(T, t, j)
                         /\ Has(T, t, j) => To(T2, t, j) = To(T, t, j),
         \A u \in D \ {t} : Same(T, T2, u),
         NEW r, Root(D, L, r), NEW v
  PROVE  WalkIn(T2, r, v) = WalkIn(T, r, v)
<1>1. \A u \in D : \A j : Has(T, u, j) => Has(T2, u, j) /\ To(T2, u, j) = To(T, u, j)
  BY DEF Same
<1>2. \A u \in D : \A j : Has(T2, u, j) =>
        (Has(T, u, j) /\ To(T2, u, j) = To(T, u, j)) \/ To(T2, u, j) = f
  BY DEF Same
<1>3. \A u \in D : L[u] = 4 => Same(T, T2, u)
  <2>1. \A u \in D : L[u] = 4 => u # t
    OBVIOUS
  <2>2. QED
    BY <2>1
<1>4. ASSUME NEW a, NEW b, NEW c, Leads(T, r, v, a, b, c)
      PROVE  Leads(T2, r, v, a, b, c) /\ Same(T, T2, c)
  <2>1. a \in D /\ b \in D /\ c \in D /\ L[c] = 4
    BY <1>4, LeadsDown
  <2>2. QED
    BY <1>1, <1>3, <1>4, <2>1 DEF Leads, Root
<1>5. ASSUME NEW a, NEW b, NEW c, Leads(T2, r, v, a, b, c), Has(T2, c, v[4])
      PROVE  Leads(T, r, v, a, b, c) /\ Same(T, T2, c)
  <2>1. a # f /\ b # f /\ c # f
    BY <1>5 DEF Leads
  <2>2. Has(T, r, v[1]) /\ a = To(T, r, v[1])
    BY <1>2, <1>5, <2>1 DEF Leads, Root
  <2>3. a \in D /\ L[a] = 2
    BY <2>2 DEF Root, Forest
  <2>4. Has(T, a, v[2]) /\ b = To(T, a, v[2])
    BY <1>2, <1>5, <2>1, <2>3 DEF Leads
  <2>5. b \in D /\ L[b] = 3
    BY <2>3, <2>4 DEF Forest
  <2>6. Has(T, b, v[3]) /\ c = To(T, b, v[3])
    BY <1>2, <1>5, <2>1, <2>5 DEF Leads
  <2>7. c \in D /\ L[c] = 4
    BY <2>5, <2>6 DEF Forest
  <2>8. QED
    BY <1>3, <2>2, <2>4, <2>6, <2>7 DEF Leads
<1>6. \A e : e \in WalkIn(T2, r, v) <=> e \in WalkIn(T, r, v)
  BY <1>4, <1>5, WalkMembers DEF Same
<1>7. QED
  BY <1>6

(* What is stored in an entry of a last table is the whole of the one walk *)
(* that comes by, and no other walk does.                                  *)
LEMMA StoreChangesOne ==
  ASSUME NEW T, NEW D, NEW L, Forest(T, D, L), NEW T2, NEW r, Root(D, L, r),
         NEW v \in Page, NEW a, NEW b, NEW t, Leads(T, r, v, a, b, t),
         \A u \in D \ {t} : Same(T, T2, u),
         \A j : j # v[4] => /\ Has(T2, t, j) <=> Has(T, t, j)
                            /\ Has(T, t, j) => Entry(T2, t, j) = Entry(T, t, j)
  PROVE  /\ \A e : e \in WalkIn(T2, r, v) <=> Has(T2, t, v[4]) /\ e = Entry(T2, t, v[4])
         /\ \A s, w : Root(D, L, s) /\ w \in Page /\ (s # r \/ w # v) =>
              WalkIn(T2, s, w) = WalkIn(T, s, w)
<1>1. t \in D /\ L[t] = 4
  BY LeadsDown
<1>2. ASSUME NEW s, Root(D, L, s), NEW w, NEW x, NEW y, NEW z
      PROVE  Leads(T2, s, w, x, y, z) <=> Leads(T, s, w, x, y, z)
  <2>1. \A u \in D : L[u] # 4 => Same(T, T2, u)
    BY <1>1
  <2>2. QED
    BY <1>2, <2>1, WaysStay
<1>3. ASSUME NEW e
      PROVE  e \in WalkIn(T2, r, v) <=> Has(T2, t, v[4]) /\ e = Entry(T2, t, v[4])
  <2>1. Leads(T2, r, v, a, b, t)
    BY <1>2
  <2>2. ASSUME NEW x, NEW y, NEW z, Leads(T2, r, v, x, y, z) PROVE z = t
    BY <2>1, <2>2 DEF Leads
  <2>3. e \in WalkIn(T2, r, v) <=>
          \E x, y, z : Leads(T2, r, v, x, y, z) /\ Has(T2, z, v[4]) /\ e = Entry(T2, z, v[4])
    BY WalkMembers
  <2>4. QED
    BY <2>1, <2>2, <2>3, Zenon
<1>4. ASSUME NEW s, NEW w \in Page, Root(D, L, s), s # r \/ w # v
      PROVE  WalkIn(T2, s, w) = WalkIn(T, s, w)
  <2>1. ASSUME NEW x, NEW y, NEW z, Leads(T, s, w, x, y, z)
        PROVE  /\ Has(T2, z, w[4]) <=> Has(T, z, w[4])
               /\ Has(T, z, w[4]) => Entry(T2, z, w[4]) = Entry(T, z, w[4])
    <3>1. CASE z = t
      <4>1. s = r /\ w[1] = v[1] /\ w[2] = v[2] /\ w[3] = v[3]
        BY <1>4, <2>1, <3>1, OneWay
      <4>2. w[4] # v[4]
        BY <1>4, <4>1, SamePage
      <4>3. QED
        BY <3>1, <4>2
    <3>2. CASE z # t
      <4>1. z \in D
        BY <1>4, <2>1, LeadsDown
      <4>2. QED
        BY <3>2, <4>1 DEF Same
    <3>3. QED
      BY <3>1, <3>2
  <2>2. \A g : g \in WalkIn(T2, s, w) <=> g \in WalkIn(T, s, w)
    BY <1>2, <1>4, <2>1, WalkMembers
  <2>3. QED
    BY <2>2
<1>5. QED
  BY <1>3, <1>4

----------------------------------------------------------------------------
(* The inductive invariant. *)

TableTypes ==
  /\ DOMAIN tables \subseteq Frame
  /\ \A t \in DOMAIN tables :
       /\ DOMAIN tables[t] \subseteq Index
       /\ \A i \in DOMAIN tables[t] :
            tables[t][i] \in IF level[t] < 4 THEN Descriptor ELSE PageEntry
  /\ level \in [DOMAIN tables -> 1 .. 4]

CallTypes ==
  \/ call = Idle
  \/ call \in MapCall
  \/ call \in UnmapCall
  \/ call \in [op : {"flush"}, pages : SUBSET Page]

TlbTypes == DOMAIN tlb \subseteq Page /\ \A v \in DOMAIN tlb : tlb[v] \in PageEntry

LEMMA TypesByPart ==
  TypeOK <=> /\ TableTypes /\ CallTypes /\ TlbTypes
             /\ free \subseteq Frame /\ kernel_pgd \in Frame \cup {NULL}
             /\ booted \in 0 .. Len(Mappings)
             /\ mmu \in {"off", "on", "hung", "fault"} /\ ttbr0 \in Frame \cup {NULL}
  BY Zenon DEF TypeOK, TableTypes, CallTypes, TlbTypes

(* The walk with the indices of v from root r has come to table t of level *)
(* n.                                                                      *)
Reached(T, r, v, n, t) ==
  \/ n = 1 /\ t = r
  \/ n = 2 /\ Has(T, r, v[1]) /\ t = To(T, r, v[1])
  \/ n = 3 /\ \E a : /\ Has(T, r, v[1]) /\ a = To(T, r, v[1])
                     /\ Has(T, a, v[2]) /\ t = To(T, a, v[2])
  \/ n = 4 /\ \E a, b : Leads(T, r, v, a, b, t)

(* Whatever the registers and a call under way name is a table that is     *)
(* there, and a call of map_page has come to its table from its own root.  *)
RootsKnown ==
  /\ kernel_pgd \in Roots \cup {NULL}
  /\ mmu = "on" => ttbr0 \in Roots /\ kernel_pgd # NULL
  /\ mmu = "off" => DOMAIN tlb = {}

CallTable ==
  /\ call.op = "map" =>
       /\ kernel_pgd # NULL /\ call.root \in Roots
       /\ call.table \in DOMAIN tables /\ level[call.table] = call.level
       /\ Reached(tables, call.root, call.v, call.level, call.table)
  /\ call.op = "unmap" => mmu # "off" /\ call.root \in Roots

MmuInv == Inv /\ RootsKnown /\ CallTable /\ NoUseAfterUnmap

LEMMA Levels ==
  ASSUME NEW n \in 1 .. 4
  PROVE  /\ n # 4 <=> n < 4
         /\ n < 4 => n + 1 \in 1 .. 4 /\ n + 1 # 1
         /\ n = 1 \/ n = 2 \/ n = 3 \/ n = 4
  OBVIOUS

LEMMA TablesAreForest ==
  ASSUME Inv
  PROVE  /\ Forest(tables, DOMAIN tables, level)
         /\ \A r : r \in Roots <=> Root(DOMAIN tables, level, r)
<1>1. \A t \in DOMAIN tables : level[t] \in 1 .. 4
  BY TypesByPart DEF Inv, TableTypes
<1>2. \A t \in DOMAIN tables : level[t] # 4 => level[t] < 4
  BY <1>1
<1>3. ASSUME NEW t \in DOMAIN tables, level[t] # 4, NEW i, Has(tables, t, i)
      PROVE  To(tables, t, i) \in DOMAIN tables
             /\ level[To(tables, t, i)] = level[t] + 1
  BY <1>2, <1>3 DEF Inv, Trees, Has, To
<1>4. ASSUME NEW t \in DOMAIN tables, level[t] # 4, NEW i, Has(tables, t, i)
      PROVE  /\ level[t] = 1 => level[To(tables, t, i)] = 2
             /\ level[t] = 2 => level[To(tables, t, i)] = 3
             /\ level[t] = 3 => level[To(tables, t, i)] = 4
  BY <1>3, <1>4
<1>5. ASSUME NEW t \in DOMAIN tables, NEW u \in DOMAIN tables, level[t] # 4, level[u] # 4,
             NEW i, NEW j, Has(tables, t, i), Has(tables, u, j),
             To(tables, u, j) = To(tables, t, i)
      PROVE  u = t /\ j = i
  BY <1>2, <1>5 DEF Inv, Trees, Has, To
<1>6. \A t \in DOMAIN tables :
        (level[t] = 1 => level[t] # 4) /\ (level[t] = 2 => level[t] # 4)
        /\ (level[t] = 3 => level[t] # 4)
  BY <1>1
<1>7. Forest(tables, DOMAIN tables, level)
  BY <1>3, <1>4, <1>5, <1>6 DEF Forest
<1>8. \A r : r \in Roots <=> Root(DOMAIN tables, level, r)
  BY DEF Roots, Root
<1>9. QED
  BY <1>7, <1>8

LEMMA CallIsMap ==
  ASSUME Inv, call.op = "map"
  PROVE  /\ call \in MapCall
         /\ call.v \in Page /\ call.level \in 1 .. 4 /\ call.table \in Frame
         /\ index \in Index
<1>1. call \in MapCall
  BY TypesByPart DEF Inv, CallTypes, UnmapCall, Idle
<1>2. call.v \in Page /\ call.level \in 1 .. 4 /\ call.table \in Frame
  BY <1>1 DEF MapCall
<1>3. index \in Index
  BY <1>2, MmuAssumption DEF index
<1>4. QED
  BY <1>1, <1>2, <1>3

LEMMA CallIsUnmap ==
  ASSUME MmuInv, call.op = "unmap"
  PROVE  call.v \in Page /\ call.root \in Roots /\ mmu # "off"
<1>1. call \in UnmapCall
  BY TypesByPart DEF MmuInv, Inv, CallTypes, MapCall, Idle
<1>2. QED
  BY <1>1 DEF UnmapCall, MmuInv, CallTable

(* The parts of the invariant that a step must show.                       *)
Steady ==
  /\ CallTypes' /\ TlbTypes' /\ free' \subseteq Frame
  /\ booted' \in 0 .. Len(Mappings)
  /\ mmu' \in {"off", "on", "hung", "fault"}
  /\ free' \cap DOMAIN tables' = {}

(* Steps that change no table.                                             *)
LEMMA QuietStep ==
  ASSUME MmuInv, UNCHANGED <<tables, level>>, Steady, RootsKnown',
         kernel_pgd # NULL => kernel_pgd' = kernel_pgd,
         ttbr0' \in Frame \cup {NULL},
         mmu' = "off" => mmu = "off",
         call' = call \/ call'.op \notin {"map", "unmap"} \/ CallTable',
         NoUseAfterUnmap'
  PROVE  MmuInv'
<1>1. TableTypes /\ Trees
  BY TypesByPart DEF MmuInv, Inv
<1>2. TableTypes'
  BY <1>1 DEF TableTypes
<1>3. kernel_pgd' \in Frame \cup {NULL}
  BY <1>2 DEF RootsKnown, Roots, TableTypes
<1>4. TypeOK'
  BY <1>2, <1>3, TypesByPart DEF Steady, TypeOK, TableTypes, CallTypes, TlbTypes
<1>5. Trees'
  BY <1>1 DEF Trees, Steady
<1>6. CallTable'
  BY DEF MmuInv, CallTable, Roots
<1>7. QED
  BY <1>4, <1>5, <1>6 DEF MmuInv, Inv

(* What mmu_init maps.                                                     *)
Mapping ==
  [v : Page, to : Page,
   flags : {{}, {PTE_DEVICE}, {"PTE_WRITE"}, {"PTE_WRITE", PTE_DEVICE}}]

LEMMA MappingFacts ==
  /\ Len(Mappings) \in Nat /\ DOMAIN Mappings = 1 .. Len(Mappings)
  /\ \A k \in 1 .. Len(Mappings) :
       /\ Mappings[k].v \in Page /\ Mappings[k].to \in Physical \cup Page
       /\ Mappings[k].flags \in {m.flags : m \in {Mappings[n] : n \in DOMAIN Mappings}}
       /\ Mappings[k].flags \in {{}, {PTE_DEVICE}, {"PTE_WRITE"}, {"PTE_WRITE", PTE_DEVICE}}
<1>1. ASSUME NEW pages \in Seq(Page),
             NEW flags \in {{}, {PTE_DEVICE}, {"PTE_WRITE"}, {"PTE_WRITE", PTE_DEVICE}}
      PROVE  Identity(pages, flags) \in Seq(Mapping)
  <2>1. Len(pages) \in Nat /\ \A k \in 1 .. Len(pages) : pages[k] \in Page
    OBVIOUS
  <2>2. Identity(pages, flags) \in [1 .. Len(pages) -> Mapping]
    BY <2>1 DEF Identity, Mapping
  <2>3. QED
    BY <2>1, <2>2
<1>2. Mappings \in Seq(Mapping)
  <2>1. Kernel \in Seq(Page) /\ Devices \in Seq(Page)
    BY MmuAssumption
  <2>2. /\ Identity(Kernel, {}) \in Seq(Mapping)
        /\ Identity(Devices, {PTE_DEVICE}) \in Seq(Mapping)
        /\ Identity(Kernel, {"PTE_WRITE"}) \in Seq(Mapping)
        /\ Identity(Devices, {"PTE_WRITE", PTE_DEVICE}) \in Seq(Mapping)
    BY <1>1, <2>1
  <2>3. arm64_mappings \in Seq(Mapping) /\ x86_64_mappings \in Seq(Mapping)
    BY <2>2 DEF arm64_mappings, x86_64_mappings
  <2>4. QED
    BY <2>3 DEF Mappings
<1>3. DOMAIN Mappings = 1 .. Len(Mappings) /\ Len(Mappings) \in Nat
      /\ \A k \in 1 .. Len(Mappings) : Mappings[k] \in Mapping
  BY <1>2
<1>4. QED
  BY <1>3 DEF Mapping

(* NoUseAfterUnmap in terms of WalkIn. *)
NoUseIn(on, T, r, rest, c) ==
  on => \A v \in rest : WalkIn(T, r, v) = {} => c.op = "flush" /\ v \in c.pages

LEMMA NoUse ==
  /\ NoUseAfterUnmap <=> NoUseIn(mmu = "on", tables, ttbr0, DOMAIN tlb, call)
  /\ NoUseAfterUnmap' <=> NoUseIn(mmu' = "on", tables', ttbr0', DOMAIN tlb', call')
  BY DEF NoUseAfterUnmap, NoUseIn, Walk, LastTable, Below, WalkIn, LastIn, BelowIn

LEMMA InitMmuInv == Init => MmuInv
<1>1. SUFFICES ASSUME Init PROVE MmuInv
  OBVIOUS
<1>2. DOMAIN tables = {} /\ DOMAIN tlb = {} /\ call.op = "none" /\ mmu = "off"
  BY <1>1 DEF Init, Idle
<1>3. TypeOK
  <2>1. TableTypes
    BY <1>1 DEF Init, TableTypes
  <2>2. CallTypes /\ TlbTypes
    BY <1>1, <1>2 DEF Init, CallTypes, TlbTypes
  <2>3. booted \in 0 .. Len(Mappings)
    <3>1. Len(Mappings) \in Nat
      BY MappingFacts
    <3>2. QED
      BY <1>1, <3>1 DEF Init
  <2>4. QED
    BY <1>1, <2>1, <2>2, <2>3, TypesByPart DEF Init
<1>4. Trees
  BY <1>2 DEF Trees
<1>5. RootsKnown /\ CallTable /\ NoUseAfterUnmap
  BY <1>1, <1>2 DEF Init, RootsKnown, CallTable, NoUseAfterUnmap
<1>6. QED
  BY <1>3, <1>4, <1>5 DEF MmuInv, Inv

----------------------------------------------------------------------------
(* The steps that change no table. *)

LEMMA Parts ==
  ASSUME MmuInv
  PROVE  /\ CallTypes /\ TlbTypes /\ free \subseteq Frame
         /\ booted \in 0 .. Len(Mappings) /\ Len(Mappings) \in Nat
         /\ mmu \in {"off", "on", "hung", "fault"}
         /\ ttbr0 \in Frame \cup {NULL}
         /\ free \cap DOMAIN tables = {} /\ Roots \subseteq Frame
         /\ DOMAIN level = DOMAIN tables /\ DOMAIN tables \subseteq Frame
<1>1. TypeOK /\ Trees
  BY DEF MmuInv, Inv
<1>2. QED
  BY <1>1, TypesByPart, MappingFacts DEF Trees, Roots, TableTypes

LEMMA GetTableStep == ASSUME MmuInv, GetTable PROVE MmuInv'
<1> DEFINE u == To(tables, call.table, index)
<1>1. /\ call.op = "map" /\ call.level < 4 /\ Has(tables, call.table, index)
      /\ call' = [call EXCEPT !.level = @ + 1, !.table = u]
  BY DEF GetTable, Has, To
<1>2. /\ call \in MapCall /\ call.level \in 1 .. 4
      /\ call.table \in DOMAIN tables /\ level[call.table] = call.level
  BY <1>1, CallIsMap DEF MmuInv, CallTable
<1>3. u \in DOMAIN tables /\ level[u] = call.level + 1
  BY <1>1, <1>2 DEF MmuInv, Inv, Trees, Has, To
<1>4. DOMAIN tables \subseteq Frame
  BY Parts
<1> HIDE DEF u
<1>5. /\ call' \in MapCall /\ call'.op = "map" /\ call'.v = call.v
      /\ call'.level = call.level + 1 /\ call'.table = u /\ call'.root = call.root
  BY <1>1, <1>2, <1>3, <1>4, Levels DEF MapCall
<1>6. Steady
  BY <1>5, Parts DEF GetTable, Steady, CallTypes, TlbTypes
<1>7. CallTable'
  <2> DEFINE r == call.root
  <2>1. r \in Roots /\ Reached(tables, r, call.v, call.level, call.table)
    BY <1>1 DEF MmuInv, CallTable
  <2>2. Reached(tables, r, call.v, call.level + 1, u)
    <3>1. call.level = 1 \/ call.level = 2 \/ call.level = 3
      BY <1>1, <1>2
    <3>2. CASE call.level = 1
      BY <1>1, <2>1, <3>2 DEF Reached, index, u
    <3>3. CASE call.level = 2
      BY <1>1, <2>1, <3>3 DEF Reached, index, u
    <3>4. CASE call.level = 3
      BY <1>1, <2>1, <3>4 DEF Reached, Leads, index, u
    <3>5. QED
      BY <3>1, <3>2, <3>3, <3>4
  <2>3. QED
    BY <1>1, <1>3, <1>5, <2>1, <2>2 DEF MmuInv, CallTable, GetTable, Roots
<1>8. NoUseAfterUnmap'
  BY <1>1, NoUse DEF MmuInv, NoUseIn, GetTable
<1>9. QED
  BY <1>6, <1>7, <1>8, Parts, QuietStep DEF MmuInv, GetTable, RootsKnown, Roots

LEMMA CreateFailsStep == ASSUME MmuInv, CreateFails PROVE MmuInv'
<1>1. call'.op = "none" /\ CallTypes'
  BY DEF CreateFails, Idle, CallTypes
<1>2. Steady
  BY <1>1, Parts DEF CreateFails, Steady, TlbTypes
<1>3. mmu' = "on" => mmu = "on"
  BY DEF CreateFails
<1>4. NoUseAfterUnmap'
  BY <1>3, NoUse DEF MmuInv, NoUseIn, CreateFails
<1>5. RootsKnown'
  BY <1>3 DEF MmuInv, RootsKnown, CreateFails, Roots
<1>6. QED
  BY <1>1, <1>2, <1>4, <1>5, Parts, QuietStep DEF CreateFails

(* A call of map_page begins, or the next one of mmu_init.                 *)
LEMMA BeginStep ==
  ASSUME MmuInv, call.op # "flush", kernel_pgd # NULL, NEW r \in Roots, NEW v \in Page,
         NEW to \in Physical \cup Page, NEW flags, BeginMap(r, v, to, flags),
         flags \in Flags \cup {m.flags : m \in {Mappings[k] : k \in DOMAIN Mappings}},
         booted' \in 0 .. Len(Mappings),
         UNCHANGED <<tables, level, free, kernel_pgd, mmu, ttbr0, tlb>>
  PROVE  MmuInv'
<1>1. /\ call' \in MapCall /\ call'.op = "map" /\ call'.v = v /\ call'.root = r
      /\ call'.level = 1 /\ call'.table = r
  BY Parts DEF BeginMap, MapCall
<1>2. Steady
  BY <1>1, Parts DEF Steady, CallTypes, TlbTypes
<1>3. CallTable'
  BY <1>1 DEF CallTable, Roots, Reached
<1>4. NoUseAfterUnmap'
  BY NoUse DEF MmuInv, NoUseIn
<1>5. QED
  BY <1>2, <1>3, <1>4, Parts, QuietStep DEF MmuInv, RootsKnown, Roots

LEMMA MapPageStep ==
  ASSUME MmuInv, NEW r \in Roots, NEW v \in Page, NEW to \in Physical, NEW flags \in Flags,
         map_page(r, v, to, flags)
  PROVE  MmuInv'
<1>1. call.op # "flush" /\ kernel_pgd # NULL
  BY DEF map_page, Idle, MmuInv, RootsKnown
<1>2. QED
  BY <1>1, BeginStep, Parts DEF map_page

LEMMA MapNextPageStep == ASSUME MmuInv, MapNextPage PROVE MmuInv'
<1> DEFINE m == Mappings[booted + 1]
<1>1. call.op # "flush" /\ BeginMap(kernel_pgd, m.v, m.to, m.flags)
      /\ booted' = booted + 1 /\ booted < Len(Mappings)
      /\ UNCHANGED <<tables, level, free, kernel_pgd, mmu, ttbr0, tlb>>
  BY DEF MapNextPage, Idle
<1>2. kernel_pgd \in Roots /\ kernel_pgd # NULL
  BY DEF MapNextPage, MmuInv, RootsKnown
<1>3. booted + 1 \in 1 .. Len(Mappings) /\ booted' \in 0 .. Len(Mappings)
  BY <1>1, Parts
<1>4. /\ m.v \in Page /\ m.to \in Physical \cup Page
      /\ m.flags \in {n.flags : n \in {Mappings[k] : k \in DOMAIN Mappings}}
  BY <1>3, MappingFacts
<1> HIDE DEF m
<1>5. QED
  BY <1>1, <1>2, <1>3, <1>4, BeginStep

LEMMA UnmapPageStep ==
  ASSUME MmuInv, NEW r \in Roots, NEW v \in Page, unmap_page(r, v)
  PROVE  MmuInv'
<1>1. /\ call' \in UnmapCall /\ call'.op = "unmap" /\ call'.root = r
      /\ mmu = "on" /\ call.op = "none"
      /\ UNCHANGED <<tables, level, free, kernel_pgd, booted, mmu, ttbr0, tlb>>
  BY Parts DEF unmap_page, UnmapCall, Idle
<1>2. Steady
  BY <1>1, Parts DEF Steady, CallTypes, TlbTypes
<1>3. CallTable'
  BY <1>1 DEF CallTable, Roots
<1>4. NoUseAfterUnmap'
  BY <1>1, NoUse DEF MmuInv, NoUseIn
<1>5. QED
  BY <1>1, <1>2, <1>3, <1>4, Parts, QuietStep DEF MmuInv, RootsKnown, Roots

LEMMA FlushStep == ASSUME MmuInv, Flush PROVE MmuInv'
<1>1. call'.op = "none" /\ CallTypes'
  BY DEF Flush, Idle, CallTypes
<1>2. DOMAIN tlb' = DOMAIN tlb \ call.pages /\ \A v \in DOMAIN tlb' : tlb'[v] = tlb[v]
  BY DEF Flush
<1>3. Steady
  BY <1>1, <1>2, Parts DEF Flush, Steady, TlbTypes
<1>4. NoUseAfterUnmap'
  BY <1>2, NoUse DEF MmuInv, NoUseIn, Flush
<1>5. QED
  BY <1>1, <1>3, <1>4, Parts, QuietStep DEF Flush, MmuInv, RootsKnown, Roots

LEMMA SwitchStep ==
  ASSUME MmuInv, NEW r \in Roots,
         arm64_switch_page_table(r) \/ x86_64_switch_page_table(r)
  PROVE  MmuInv'
<1>1. CallTypes' /\ TlbTypes' /\ (call' = call \/ call'.op = "flush")
  <2>1. CASE arm64_switch_page_table(r)
    BY <2>1, Parts DEF arm64_switch_page_table, CallTypes, TlbTypes
  <2>2. CASE x86_64_switch_page_table(r)
    BY <2>2, Parts DEF x86_64_switch_page_table, CallTypes, TlbTypes
  <2>3. QED
    BY <2>1, <2>2
<1>2. /\ ttbr0' = r /\ UNCHANGED <<tables, level, free, kernel_pgd, booted, mmu>>
      /\ mmu = "on"
  BY DEF arm64_switch_page_table, x86_64_switch_page_table
<1>3. Steady
  BY <1>1, <1>2, Parts DEF Steady
<1>4. NoUseAfterUnmap'
  <2>1. CASE arm64_switch_page_table(r)
    <3>1. call'.op = "flush" /\ call'.pages = Page /\ tlb' = tlb
      BY <2>1 DEF arm64_switch_page_table
    <3>2. DOMAIN tlb \subseteq Page
      BY Parts DEF TlbTypes
    <3>3. QED
      BY <3>1, <3>2, NoUse DEF NoUseIn
  <2>2. CASE x86_64_switch_page_table(r)
    <3>1. DOMAIN tlb' = {}
      BY <2>2 DEF x86_64_switch_page_table
    <3>2. QED
      BY <3>1, NoUse DEF NoUseIn
  <2>3. QED
    BY <2>1, <2>2
<1>5. RootsKnown'
  BY <1>2 DEF MmuInv, RootsKnown, Roots
<1>6. QED
  BY <1>1, <1>2, <1>3, <1>4, <1>5, Parts, QuietStep

LEMMA EnableMmuStep == ASSUME MmuInv, EnableMmu PROVE MmuInv'
<1>1. DOMAIN tlb' = {} /\ call' = call /\ mmu' = "on" /\ ttbr0' = kernel_pgd
      /\ kernel_pgd \in Roots /\ kernel_pgd # NULL
      /\ UNCHANGED <<tables, level, free, kernel_pgd, booted>>
  BY DEF EnableMmu, MmuInv, RootsKnown
<1>2. Steady
  BY <1>1, Parts DEF Steady, CallTypes, TlbTypes
<1>3. NoUseAfterUnmap'
  BY <1>1, NoUse DEF NoUseIn
<1>4. RootsKnown'
  BY <1>1 DEF RootsKnown, Roots
<1>5. QED
  BY <1>1, <1>2, <1>3, <1>4, Parts, QuietStep

LEMMA TlbStep == ASSUME MmuInv, TlbFill \/ TlbEvict PROVE MmuInv'
<1>1. /\ UNCHANGED <<tables, level, free, kernel_pgd, booted, call, mmu, ttbr0>>
  BY DEF TlbFill, TlbEvict
<1>2. TlbTypes' /\ NoUseAfterUnmap'
  <2>1. CASE TlbFill
    <3>1. PICK v \in Page \ DOMAIN tlb : \E e \in Walk(ttbr0, v) :
            tlb' = [w \in DOMAIN tlb \cup {v} |-> IF w = v THEN e ELSE tlb[w]]
      BY <2>1 DEF TlbFill
    <3>2. PICK e \in Walk(ttbr0, v) :
            tlb' = [w \in DOMAIN tlb \cup {v} |-> IF w = v THEN e ELSE tlb[w]]
      BY <3>1
    <3>3. e \in WalkIn(tables, ttbr0, v)
      BY <3>2, WalkIsIn
    <3>4. e \in PageEntry
      <4>1. PICK a, b, c : Leads(tables, ttbr0, v, a, b, c) /\ Has(tables, c, v[4])
                           /\ e = Entry(tables, c, v[4])
        BY <3>3, WalkMembers
      <4>2. Root(DOMAIN tables, level, ttbr0)
        BY <2>1, TablesAreForest DEF TlbFill, MmuInv, RootsKnown
      <4>3. c \in DOMAIN tables /\ level[c] = 4
        BY <4>1, <4>2, LeadsDown, TablesAreForest DEF MmuInv
      <4>4. TableTypes
        BY TypesByPart DEF MmuInv, Inv
      <4>5. QED
        BY <4>1, <4>3, <4>4 DEF TableTypes, Has, Entry
    <3>5. TlbTypes'
      BY <3>1, <3>2, <3>4, Parts DEF TlbTypes
    <3>6. NoUseAfterUnmap'
      BY <1>1, <3>2, <3>3, NoUse DEF MmuInv, NoUseIn
    <3>7. QED
      BY <3>5, <3>6
  <2>2. CASE TlbEvict
    <3>1. DOMAIN tlb' \subseteq DOMAIN tlb /\ \A v \in DOMAIN tlb' : tlb'[v] = tlb[v]
      BY <2>2 DEF TlbEvict
    <3>2. TlbTypes'
      BY <3>1, Parts DEF TlbTypes
    <3>3. NoUseAfterUnmap'
      BY <1>1, <3>1, NoUse DEF MmuInv, NoUseIn
    <3>4. QED
      BY <3>2, <3>3
  <2>3. QED
    BY <2>1, <2>2
<1>3. Steady
  BY <1>1, <1>2, Parts DEF Steady, CallTypes
<1>4. RootsKnown'
  <2>1. mmu = "off" /\ DOMAIN tlb = {} => DOMAIN tlb' = {}
    BY DEF TlbFill, TlbEvict
  <2>2. QED
    BY <1>1, <2>1 DEF MmuInv, RootsKnown, Roots
<1>5. QED
  BY <1>1, <1>2, <1>3, <1>4, Parts, QuietStep

LEMMA OthersStep == ASSUME MmuInv, Others \/ PageFault PROVE MmuInv'
<1>1. /\ free' \subseteq Frame /\ free' \cap DOMAIN tables = {}
      /\ UNCHANGED <<tables, level, kernel_pgd, booted, call, ttbr0, tlb>>
      /\ mmu' \in {mmu, "fault"}
  BY Parts DEF Others, PageFault
<1>2. Steady
  BY <1>1, Parts DEF Steady, CallTypes, TlbTypes
<1>3. NoUseAfterUnmap'
  BY <1>1, NoUse DEF MmuInv, NoUseIn
<1>4. RootsKnown'
  BY <1>1 DEF MmuInv, RootsKnown, Roots
<1>5. QED
  BY <1>1, <1>2, <1>3, <1>4, Parts, QuietStep

----------------------------------------------------------------------------
(* The steps that change a table. *)

LEMMA TableStep ==
  ASSUME MmuInv, TableTypes', Trees', CallTypes', RootsKnown', CallTable', NoUseAfterUnmap',
         free' \subseteq Frame, mmu' \in {"off", "on", "hung", "fault"},
         UNCHANGED <<booted, ttbr0, tlb>>
  PROVE  MmuInv'
<1>1. TlbTypes' /\ booted' \in 0 .. Len(Mappings) /\ ttbr0' \in Frame \cup {NULL}
  BY Parts DEF TlbTypes
<1>2. kernel_pgd' \in Frame \cup {NULL}
  BY DEF RootsKnown, Roots, TableTypes
<1>3. TypeOK'
  BY <1>1, <1>2 DEF TypeOK, TableTypes, CallTypes, TlbTypes
<1>4. QED
  BY <1>3 DEF MmuInv, Inv

LEMMA NewFrame ==
  ASSUME MmuInv, NEW l \in 1 .. 4, NEW f, alloc_page_table(f, l)
  PROVE  /\ f \in Frame /\ f \notin DOMAIN tables
         /\ DOMAIN level' = DOMAIN tables \cup {f} /\ level'[f] = l
         /\ \A t \in DOMAIN tables : level'[t] = level[t]
         /\ free' \subseteq Frame /\ free' \cap (DOMAIN tables \cup {f}) = {}
         /\ level' \in [DOMAIN tables \cup {f} -> 1 .. 4]
<1>1. level \in [DOMAIN tables -> 1 .. 4]
  BY TypesByPart DEF MmuInv, Inv, TableTypes
<1>2. f \in free /\ free' = free \ {f}
      /\ level' = [t \in DOMAIN tables \cup {f} |-> IF t = f THEN l ELSE level[t]]
  BY <1>1 DEF alloc_page_table, Lowest
<1>3. free \subseteq Frame /\ free \cap DOMAIN tables = {}
  BY Parts
<1>4. QED
  BY <1>1, <1>2, <1>3

(* A new root: the other tables and their walks stay. *)
LEMMA NewRoot ==
  ASSUME MmuInv, NEW f, alloc_page_table(f, 1), tables' = Cleared(f)
  PROVE  /\ TableTypes' /\ Trees'
         /\ Roots' = Roots \cup {f} /\ f \notin Roots
         /\ free' \subseteq Frame
         /\ DOMAIN tables' = DOMAIN tables \cup {f}
         /\ \A t \in DOMAIN tables : Same(tables, tables', t)
         /\ \A t \in DOMAIN tables : level'[t] = level[t]
         /\ \A j : ~Has(tables', f, j)
<1> DEFINE D == DOMAIN tables
<1>1. /\ f \in Frame /\ f \notin D /\ level'[f] = 1
      /\ \A t \in D : level'[t] = level[t]
      /\ free' \cap (D \cup {f}) = {} /\ free' \subseteq Frame
      /\ level' \in [D \cup {f} -> 1 .. 4]
  <2>1. 1 \in 1 .. 4
    OBVIOUS
  <2>2. QED
    BY <2>1, NewFrame
<1>2. /\ DOMAIN tables' = D \cup {f} /\ DOMAIN tables'[f] = {}
      /\ \A t \in D : tables'[t] = tables[t]
  BY <1>1 DEF Cleared
<1>3. TableTypes /\ Trees
  BY TypesByPart DEF MmuInv, Inv
<1>4. TableTypes'
  BY <1>1, <1>2, <1>3 DEF TableTypes
<1>5. Trees'
  BY <1>1, <1>2, <1>3 DEF Trees
<1>6. Roots' = Roots \cup {f} /\ f \notin Roots
  BY <1>1, <1>2 DEF Roots
<1>7. \A t \in D : Same(tables, tables', t)
  BY <1>2 DEF Same, Has, To, Entry
<1>8. QED
  BY <1>1, <1>2, <1>4, <1>5, <1>6, <1>7 DEF Has

LEMMA NewRootWalks ==
  ASSUME MmuInv, NEW f, alloc_page_table(f, 1), tables' = Cleared(f)
  PROVE  /\ \A r \in Roots : \A v : WalkIn(tables', r, v) = WalkIn(tables, r, v)
         /\ \A v : WalkIn(tables', f, v) = {}
<1>1. ASSUME NEW r \in Roots, NEW v PROVE WalkIn(tables', r, v) = WalkIn(tables, r, v)
  <2>1. Forest(tables, DOMAIN tables, level) /\ Root(DOMAIN tables, level, r)
    BY TablesAreForest DEF MmuInv
  <2>2. \A t \in DOMAIN tables : Same(tables, tables', t)
    BY NewRoot
  <2>3. QED
    BY <2>1, <2>2, UnchangedWalks
<1>2. ASSUME NEW v, NEW e PROVE e \notin WalkIn(tables', f, v)
  BY NewRoot, WalkMembers DEF Leads
<1>3. QED
  BY <1>1, <1>2

LEMMA CreatePageTableStep == ASSUME MmuInv, create_page_table PROVE MmuInv'
<1>1. PICK f \in free : alloc_page_table(f, 1) /\ tables' = Cleared(f)
  BY DEF create_page_table
<1>2. call.op = "none" /\ UNCHANGED <<kernel_pgd, booted, call, mmu, ttbr0, tlb>>
  BY DEF create_page_table, Idle
<1>3. TableTypes' /\ Trees' /\ Roots' = Roots \cup {f}
  BY <1>1, NewRoot
<1>4. RootsKnown' /\ CallTable' /\ CallTypes'
  BY <1>2, <1>3, Parts DEF MmuInv, RootsKnown, CallTable, CallTypes
<1>5. NoUseAfterUnmap'
  <2>1. mmu = "on" => ttbr0 \in Roots
    BY DEF MmuInv, RootsKnown
  <2>2. QED
    BY <1>1, <1>2, <2>1, NewRootWalks, NoUse DEF MmuInv, NoUseIn
<1>6. free' \subseteq Frame
  BY <1>1, NewRoot
<1>7. QED
  BY <1>2, <1>3, <1>4, <1>5, <1>6, Parts, TableStep

LEMMA CreateKernelTableStep ==
  ASSUME MmuInv, CreateKernelTable PROVE MmuInv'
<1>1. UNCHANGED <<booted, call, ttbr0, tlb>> /\ mmu = "off" /\ kernel_pgd = NULL
      /\ call.op # "map" /\ call.op # "unmap"
  BY DEF CreateKernelTable, MmuInv, CallTable
<1>2. mmu' # "on" /\ NoUseAfterUnmap'
  <2>1. mmu' # "on"
    BY <1>1 DEF CreateKernelTable
  <2>2. QED
    BY <2>1, NoUse DEF NoUseIn
<1>3. CASE \E f \in free : alloc_page_table(f, 1) /\ tables' = Cleared(f)
                           /\ kernel_pgd' = f /\ mmu' = mmu
  <2>1. PICK f \in free : alloc_page_table(f, 1) /\ tables' = Cleared(f)
                           /\ kernel_pgd' = f /\ mmu' = mmu
    BY <1>3
  <2>2. TableTypes' /\ Trees' /\ Roots' = Roots \cup {f}
    BY <2>1, NewRoot
  <2>3. RootsKnown' /\ CallTable' /\ CallTypes'
    BY <1>1, <1>2, <2>1, <2>2, Parts DEF MmuInv, RootsKnown, CallTable, CallTypes
  <2>4. free' \subseteq Frame
    BY <2>1, NewRoot
  <2>5. QED
    BY <1>1, <1>2, <2>1, <2>2, <2>3, <2>4, Parts, TableStep
<1>4. CASE mmu' = "hung" /\ UNCHANGED <<tables, level, free, kernel_pgd>>
  <2>1. Steady /\ RootsKnown'
    BY <1>1, <1>4, Parts DEF Steady, CallTypes, TlbTypes, MmuInv, RootsKnown, Roots
  <2>2. QED
    BY <1>1, <1>2, <1>4, <2>1, Parts, QuietStep
<1>5. QED
  BY <1>3, <1>4 DEF CreateKernelTable

(* A new table in an entry that was not there. *)
CreatesAt(f) ==
  /\ call.op = "map" /\ call.level < 4 /\ ~Has(tables, call.table, index)
  /\ alloc_page_table(f, call.level + 1)
  /\ tables' = SetEntry(Cleared(f), call.table, index, descriptor(f))
  /\ call' = [call EXCEPT !.level = @ + 1, !.table = f]
  /\ UNCHANGED <<kernel_pgd, booted, mmu, ttbr0, tlb>>

(* What that leaves alone.                                                 *)
LEMMA NewTable ==
  ASSUME MmuInv, NEW f, CreatesAt(f)
  PROVE  /\ f \in Frame /\ f \notin DOMAIN tables /\ free' \subseteq Frame
         /\ free' \cap (DOMAIN tables \cup {f}) = {}
         /\ level' \in [DOMAIN tables \cup {f} -> 1 .. 4]
         /\ level'[f] = call.level + 1 /\ \A t \in DOMAIN tables : level'[t] = level[t]
         /\ call.table \in DOMAIN tables /\ level[call.table] = call.level
         /\ call.level \in 1 .. 3 /\ index \in Index
         /\ DOMAIN tables' = DOMAIN tables \cup {f}
         /\ \A t \in DOMAIN tables \ {call.table} : tables'[t] = tables[t]
         /\ DOMAIN tables'[f] = {}
         /\ DOMAIN tables'[call.table] = DOMAIN tables[call.table] \cup {index}
         /\ tables'[call.table][index] = descriptor(f)
         /\ \A j \in DOMAIN tables[call.table] \ {index} :
              tables'[call.table][j] = tables[call.table][j]
<1> DEFINE t == call.table
           i == index
<1>1. t \in DOMAIN tables /\ level[t] = call.level
  BY DEF CreatesAt, MmuInv, CallTable
<1>2. call.level \in 1 .. 3 /\ call.level + 1 \in 1 .. 4 /\ index \in Index
  <2>1. call.level \in 1 .. 4 /\ index \in Index
    BY CallIsMap DEF CreatesAt, MmuInv
  <2>2. QED
    BY <2>1 DEF CreatesAt
<1>3. /\ f \in Frame /\ f \notin DOMAIN tables /\ free' \subseteq Frame
      /\ free' \cap (DOMAIN tables \cup {f}) = {}
      /\ level' \in [DOMAIN tables \cup {f} -> 1 .. 4]
      /\ level'[f] = call.level + 1 /\ \A u \in DOMAIN tables : level'[u] = level[u]
  BY <1>2, NewFrame DEF CreatesAt
<1>4. /\ DOMAIN Cleared(f) = DOMAIN tables \cup {f} /\ DOMAIN Cleared(f)[f] = {}
      /\ \A u \in DOMAIN tables : Cleared(f)[u] = tables[u]
      /\ Cleared(f) \in [DOMAIN tables \cup {f} -> {Cleared(f)[u] : u \in DOMAIN tables \cup {f}}]
  BY <1>3 DEF Cleared
<1> DEFINE C == Cleared(f)
           e == descriptor(f)
<1>5. tables' = [C EXCEPT ![t] = [j \in DOMAIN C[t] \cup {i} |-> IF j = i THEN e ELSE C[t][j]]]
  BY DEF CreatesAt, SetEntry
<1> HIDE DEF C, e, t, i
<1>6. /\ DOMAIN tables' = DOMAIN C
      /\ \A u \in DOMAIN C \ {t} : tables'[u] = C[u]
      /\ t \in DOMAIN C => tables'[t] = [j \in DOMAIN C[t] \cup {i} |-> IF j = i THEN e ELSE C[t][j]]
  BY <1>5
<1>7. /\ DOMAIN C = DOMAIN tables \cup {f} /\ DOMAIN C[f] = {}
      /\ \A u \in DOMAIN tables : C[u] = tables[u]
  BY <1>4 DEF C
<1>8. t \in DOMAIN tables
  BY <1>1 DEF t
<1>9. /\ DOMAIN tables' = DOMAIN tables \cup {f}
      /\ \A u \in DOMAIN tables \ {t} : tables'[u] = tables[u]
      /\ DOMAIN tables'[f] = {}
      /\ tables'[t] = [j \in DOMAIN tables[t] \cup {i} |-> IF j = i THEN e ELSE tables[t][j]]
  BY <1>3, <1>6, <1>7, <1>8
<1>10. /\ DOMAIN tables'[t] = DOMAIN tables[t] \cup {i} /\ tables'[t][i] = e
       /\ \A j \in DOMAIN tables[t] \ {i} : tables'[t][j] = tables[t][j]
  BY <1>9
<1>11. QED
  BY <1>1, <1>2, <1>3, <1>9, <1>10 DEF t, i, e

(* The same of Has and To.                                                 *)
LEMMA NewTableEntries ==
  ASSUME MmuInv, NEW f, CreatesAt(f)
  PROVE  /\ \A u \in DOMAIN tables : \A j :
              Has(tables', u, j) <=> Has(tables, u, j) \/ (u = call.table /\ j = index)
         /\ \A j : ~Has(tables', f, j)
         /\ \A u \in DOMAIN tables : \A j : Has(tables, u, j) =>
              To(tables', u, j) = To(tables, u, j) /\ Entry(tables', u, j) = Entry(tables, u, j)
         /\ Entry(tables', call.table, index) = descriptor(f)
         /\ To(tables', call.table, index) = f
<1> DEFINE t == call.table
           i == index
<1>1. /\ i \notin DOMAIN tables[t] /\ t \in DOMAIN tables
      /\ \A u \in DOMAIN tables \ {t} : tables'[u] = tables[u]
      /\ DOMAIN tables'[f] = {} /\ DOMAIN tables'[t] = DOMAIN tables[t] \cup {i}
      /\ tables'[t][i] = descriptor(f)
      /\ \A j \in DOMAIN tables[t] \ {i} : tables'[t][j] = tables[t][j]
  BY NewTable DEF CreatesAt, Has
<1> HIDE DEF t, i
<1>2. \A u \in DOMAIN tables : \A j :
        Has(tables', u, j) <=> Has(tables, u, j) \/ (u = t /\ j = i)
  BY <1>1 DEF Has
<1>3. \A u \in DOMAIN tables : \A j : Has(tables, u, j) => tables'[u][j] = tables[u][j]
  BY <1>1 DEF Has
<1>4. (\A j : ~Has(tables', f, j)) /\ tables'[t][i] = descriptor(f)
      /\ tables'[t][i].to = f
  BY <1>1 DEF Has, descriptor
<1>5. QED
  BY <1>2, <1>3, <1>4 DEF To, Entry, t, i

LEMMA NewTableTrees ==
  ASSUME MmuInv, NEW f, CreatesAt(f)
  PROVE  TableTypes' /\ Trees' /\ Roots' = Roots
<1> DEFINE D == DOMAIN tables
           t == call.table
           i == index
<1>1. /\ f \in Frame /\ f \notin D /\ t \in D /\ i \in Index
      /\ DOMAIN tables' = D \cup {f}
      /\ level'[f] = level[t] + 1 /\ \A u \in D : level'[u] = level[u]
      /\ level' \in [D \cup {f} -> 1 .. 4] /\ level[t] \in 1 .. 3
      /\ free' \cap (D \cup {f}) = {}
  BY NewTable
<1>2. TableTypes /\ Trees
  BY TypesByPart DEF MmuInv, Inv
<1>3. TableTypes'
  <2>1. descriptor(f) \in Descriptor
    BY <1>1 DEF descriptor, Descriptor, PteFlags
  <2>2. QED
    BY <1>1, <1>2, <2>1, NewTable DEF TableTypes
<1>4. \A u \in D : \A j : Has(tables, u, j) /\ level[u] < 4 =>
        /\ To(tables, u, j) \in D /\ level[To(tables, u, j)] = level[u] + 1
        /\ \A w \in D : level[w] < 4 => \A k : Has(tables, w, k) =>
             (To(tables, w, k) = To(tables, u, j) => w = u /\ k = j)
  BY <1>2 DEF Trees, Has, To
<1>5. /\ \A u \in D : \A j : Has(tables', u, j) <=> Has(tables, u, j) \/ (u = t /\ j = i)
      /\ \A j : ~Has(tables', f, j)
      /\ \A u \in D : \A j : Has(tables, u, j) => To(tables', u, j) = To(tables, u, j)
      /\ To(tables', t, i) = f
  BY NewTableEntries
<1> HIDE DEF D, t, i
<1>6. ASSUME NEW u \in D, NEW j, Has(tables', u, j), level[u] < 4
      PROVE  \/ u = t /\ j = i /\ To(tables', u, j) = f
             \/ Has(tables, u, j) /\ To(tables', u, j) = To(tables, u, j) /\ To(tables', u, j) \in D
  BY <1>4, <1>5, <1>6
<1>7. ASSUME NEW u \in D, NEW j, Has(tables', u, j), level[u] < 4
      PROVE  /\ To(tables', u, j) \in D \cup {f}
             /\ level'[To(tables', u, j)] = level[u] + 1
  <2>1. CASE u = t /\ j = i /\ To(tables', u, j) = f
    BY <1>1, <2>1
  <2>2. CASE Has(tables, u, j) /\ To(tables', u, j) = To(tables, u, j) /\ To(tables', u, j) \in D
    BY <1>1, <1>4, <1>7, <2>2
  <2>3. QED
    BY <1>6, <1>7, <2>1, <2>2
<1>8. ASSUME NEW u \in D, NEW j, Has(tables', u, j), level[u] < 4,
             NEW w \in D, NEW k, Has(tables', w, k), level[w] < 4,
             To(tables', w, k) = To(tables', u, j)
      PROVE  w = u /\ k = j
  <2>1. CASE To(tables', u, j) = f
    BY <1>1, <1>6, <1>8, <2>1
  <2>2. CASE To(tables', u, j) # f
    <3>1. Has(tables, u, j) /\ To(tables', u, j) = To(tables, u, j)
      BY <1>6, <1>8, <2>2
    <3>2. Has(tables, w, k) /\ To(tables', w, k) = To(tables, w, k)
      BY <1>6, <1>8, <2>2
    <3>3. QED
      BY <1>4, <1>8, <3>1, <3>2
  <2>3. QED
    BY <2>1, <2>2
<1>9. Trees'
  <2>1. /\ \A u \in D : level'[u] = level[u]
        /\ DOMAIN tables' = D \cup {f}
        /\ \A j : ~Has(tables', f, j)
    BY <1>1, <1>5
  <2>2. ASSUME NEW u \in DOMAIN tables', level'[u] < 4, NEW j, Has(tables', u, j)
        PROVE  /\ To(tables', u, j) \in DOMAIN tables'
               /\ level'[To(tables', u, j)] = level'[u] + 1
               /\ \A w \in DOMAIN tables' : level'[w] < 4 => \A k : Has(tables', w, k) =>
                    (To(tables', w, k) = To(tables', u, j) => w = u /\ k = j)
    <3>1. u \in D /\ level[u] < 4
      BY <2>1, <2>2
    <3>2. \A w \in DOMAIN tables' : level'[w] < 4 => \A k : Has(tables', w, k) =>
            w \in D /\ level[w] < 4
      BY <2>1
    <3>3. QED
      BY <1>7, <1>8, <2>1, <2>2, <3>1, <3>2
  <2>3. free' \cap DOMAIN tables' = {}
    BY <1>1
  <2>4. QED
    BY <2>2, <2>3 DEF Trees, Has, To
<1>10. Roots' = Roots
  <2>1. level'[f] # 1
    BY <1>1
  <2>2. QED
    BY <1>1, <2>1 DEF Roots, D
<1>11. QED
  BY <1>3, <1>9, <1>10

LEMMA NewTableWalks ==
  ASSUME MmuInv, NEW f, CreatesAt(f), NEW r \in Roots, NEW v
  PROVE  WalkIn(tables', r, v) = WalkIn(tables, r, v)
<1> DEFINE D == DOMAIN tables
<1>1. Forest(tables, D, level) /\ Root(D, level, r)
  BY TablesAreForest DEF MmuInv
<1>2. call.table \in D /\ level[call.table] # 4 /\ ~Has(tables, call.table, index)
  <2>1. call.table \in D /\ level[call.table] \in 1 .. 3
    BY NewTable
  <2>2. QED
    BY <2>1 DEF CreatesAt
<1>3. /\ \A j : ~Has(tables', f, j)
      /\ To(tables', call.table, index) = f
  BY NewTableEntries
<1>4. \A j : j # index =>
        /\ Has(tables', call.table, j) <=> Has(tables, call.table, j)
        /\ Has(tables, call.table, j) => To(tables', call.table, j) = To(tables, call.table, j)
  BY <1>2, NewTableEntries
<1>5. \A u \in D \ {call.table} : Same(tables, tables', u)
  BY NewTable DEF Same, Has, To, Entry
<1> HIDE DEF D
<1>6. QED
  BY <1>1, <1>2, <1>3, <1>4, <1>5, NewTableKeepsWalks

LEMMA CreateTableStep == ASSUME MmuInv, CreateTable PROVE MmuInv'
<1>1. PICK f : CreatesAt(f)
  BY DEF CreateTable, CreatesAt, Has
<1>2. TableTypes' /\ Trees' /\ Roots' = Roots
  BY <1>1, NewTableTrees
<1>3. /\ call \in MapCall /\ call.op = "map" /\ kernel_pgd # NULL
      /\ UNCHANGED <<kernel_pgd, booted, mmu, ttbr0, tlb>>
      /\ call' = [call EXCEPT !.level = @ + 1, !.table = f]
  BY <1>1, CallIsMap DEF CreatesAt, MmuInv, CallTable
<1>4. /\ call.level \in 1 .. 3 /\ f \in Frame /\ free' \subseteq Frame
      /\ level'[f] = call.level + 1 /\ f \in DOMAIN tables'
      /\ call.table \in DOMAIN tables /\ level[call.table] = call.level
  BY <1>1, NewTable
<1>5. /\ call' \in MapCall /\ call'.op = "map" /\ call'.v = call.v
      /\ call'.level = call.level + 1 /\ call'.table = f /\ call'.root = call.root
  <2>1. call.level + 1 \in 1 .. 4
    BY <1>4
  <2>2. QED
    BY <1>3, <1>4, <2>1 DEF MapCall
<1>6. CallTypes' /\ RootsKnown'
  BY <1>2, <1>3, <1>5 DEF CallTypes, MmuInv, RootsKnown
<1>7. CallTable'
  <2> DEFINE r == call.root
  <2>1. r \in Roots /\ Reached(tables, r, call.v, call.level, call.table)
    BY <1>3 DEF MmuInv, CallTable
  <2> HIDE DEF r
  <2>2. \A u \in DOMAIN tables : \A j : Has(tables, u, j) =>
          Has(tables', u, j) /\ To(tables', u, j) = To(tables, u, j)
    BY <1>1, NewTableEntries
  <2>3. Has(tables', call.table, index) /\ To(tables', call.table, index) = f
    BY <1>1, <1>4, NewTableEntries
  <2>4. Forest(tables, DOMAIN tables, level) /\ Root(DOMAIN tables, level, r)
    BY <2>1, TablesAreForest DEF MmuInv
  <2>5. Reached(tables', r, call.v, call.level + 1, f)
    <3>1. CASE call.level = 1
      BY <2>1, <2>3, <3>1 DEF Reached, index
    <3>2. CASE call.level = 2
      BY <2>1, <2>2, <2>3, <2>4, <3>2 DEF Reached, index, Root
    <3>3. CASE call.level = 3
      <4>1. PICK a : /\ Has(tables, r, call.v[1]) /\ a = To(tables, r, call.v[1])
                     /\ Has(tables, a, call.v[2]) /\ call.table = To(tables, a, call.v[2])
        BY <2>1, <3>3 DEF Reached
      <4>2. r \in DOMAIN tables /\ a \in DOMAIN tables
        BY <2>4, <4>1 DEF Root, Forest
      <4>3. Leads(tables', r, call.v, a, call.table, f)
        BY <2>2, <2>3, <3>3, <4>1, <4>2 DEF Leads, index
      <4>4. QED
        BY <3>3, <4>3 DEF Reached
    <3>4. QED
      BY <1>4, <3>1, <3>2, <3>3
  <2>6. QED
    BY <1>2, <1>3, <1>4, <1>5, <2>1, <2>5 DEF CallTable, r
<1>8. NoUseAfterUnmap'
  <2>1. mmu = "on" => \A v : WalkIn(tables', ttbr0, v) = WalkIn(tables, ttbr0, v)
    BY <1>1, NewTableWalks DEF MmuInv, RootsKnown
  <2>2. QED
    BY <1>3, <2>1, NoUse DEF MmuInv, NoUseIn
<1>9. QED
  BY <1>2, <1>3, <1>4, <1>6, <1>7, <1>8, Parts, TableStep

----------------------------------------------------------------------------
(* Stores into last tables. *)

(* Only entries of last tables differ, and they are page entries.          *)
LastTablesOnly ==
  /\ DOMAIN tables' = DOMAIN tables /\ level' = level /\ free' = free
  /\ \A t \in DOMAIN tables : level[t] # 4 => tables'[t] = tables[t]
  /\ \A t \in DOMAIN tables : level[t] = 4 =>
       /\ DOMAIN tables'[t] \subseteq Index
       /\ \A i \in DOMAIN tables'[t] : tables'[t][i] \in PageEntry

LEMMA StoreKeepsTrees ==
  ASSUME MmuInv, LastTablesOnly
  PROVE  TableTypes' /\ Trees' /\ Roots' = Roots
<1>1. TableTypes /\ Trees
  BY TypesByPart DEF MmuInv, Inv
<1>2. \A t \in DOMAIN tables : level[t] \in 1 .. 4
  BY <1>1 DEF TableTypes
<1>3. \A t \in DOMAIN tables : level[t] < 4 <=> level[t] # 4
  BY <1>2
<1>4. TableTypes'
  BY <1>1, <1>3 DEF TableTypes, LastTablesOnly
<1>5. Trees'
  BY <1>1, <1>3 DEF Trees, LastTablesOnly
<1>6. Roots' = Roots
  BY DEF Roots, LastTablesOnly
<1>7. QED
  BY <1>4, <1>5, <1>6

(* An entry built from what callers pass.                                  *)
LEMMA PteIsEntry ==
  ASSUME NEW to \in Physical \cup Page,
         NEW flags \in Flags \cup {m.flags : m \in {Mappings[k] : k \in DOMAIN Mappings}}
  PROVE  Pte(to, flags) \in PageEntry
<1>1. flags \ {PTE_DEVICE} \subseteq PteFlags
  <2>1. CASE flags \in Flags
    BY <2>1 DEF PteFlags
  <2>2. CASE flags \in {m.flags : m \in {Mappings[k] : k \in DOMAIN Mappings}}
    <3>1. flags \in {{}, {PTE_DEVICE}, {"PTE_WRITE"}, {"PTE_WRITE", PTE_DEVICE}}
      BY <2>2, MappingFacts
    <3>2. QED
      BY <3>1 DEF PteFlags
  <2>3. QED
    BY <2>1, <2>2
<1>2. arm64_pte(to, flags) \in PageEntry
  BY <1>1 DEF arm64_pte, PageEntry, PteFlags
<1>3. x86_64_pte(to, flags) \in PageEntry
  BY <1>1 DEF x86_64_pte, PageEntry, PteFlags
<1>4. QED
  BY <1>2, <1>3 DEF Pte

LEMMA InstallEffect ==
  ASSUME MmuInv, Install
  PROVE  /\ LastTablesOnly
         /\ WalkIn(tables', call.root, call.v) = {Pte(call.to, call.flags)}
         /\ \A s \in Roots, w \in Page : (s # call.root \/ w # call.v) =>
              WalkIn(tables', s, w) = WalkIn(tables, s, w)
<1> DEFINE t == call.table
           i == index
           e == Pte(call.to, call.flags)
           r == call.root
<1>1. /\ call.op = "map" /\ call.level = 4 /\ i = call.v[4]
      /\ tables' = [tables EXCEPT ![t] =
                      [j \in DOMAIN tables[t] \cup {i} |-> IF j = i THEN e ELSE tables[t][j]]]
      /\ UNCHANGED <<level, free>>
  BY DEF Install, SetEntry, index
<1>2. /\ call \in MapCall /\ call.v \in Page /\ i \in Index
      /\ t \in DOMAIN tables /\ level[t] = 4
  BY <1>1, CallIsMap DEF MmuInv, CallTable
<1>3. e \in PageEntry
  BY <1>2, PteIsEntry DEF MapCall
<1>4. TableTypes
  BY TypesByPart DEF MmuInv, Inv
<1>5. DOMAIN tables[t] \subseteq Index /\ \A j \in DOMAIN tables[t] : tables[t][j] \in PageEntry
  BY <1>2, <1>4 DEF TableTypes
<1> HIDE DEF t, i, e
<1>6. /\ DOMAIN tables' = DOMAIN tables
      /\ \A u \in DOMAIN tables \ {t} : tables'[u] = tables[u]
      /\ tables'[t] = [j \in DOMAIN tables[t] \cup {i} |-> IF j = i THEN e ELSE tables[t][j]]
  BY <1>1, <1>2
<1>7. /\ DOMAIN tables'[t] = DOMAIN tables[t] \cup {i}
      /\ tables'[t][i] = e
      /\ \A j \in DOMAIN tables[t] \ {i} : tables'[t][j] = tables[t][j]
  BY <1>6
<1>8. LastTablesOnly
  <2>1. \A u \in DOMAIN tables : level[u] = 4 =>
          /\ DOMAIN tables[u] \subseteq Index
          /\ \A j \in DOMAIN tables[u] : tables[u][j] \in PageEntry
    BY <1>4 DEF TableTypes
  <2>2. DOMAIN tables'[t] \subseteq Index /\ \A j \in DOMAIN tables'[t] : tables'[t][j] \in PageEntry
    BY <1>2, <1>3, <1>5, <1>7
  <2>3. QED
    BY <1>1, <1>2, <1>6, <2>1, <2>2 DEF LastTablesOnly
<1>9. r \in Roots /\ \E a, b : Leads(tables, r, call.v, a, b, t)
  <2>1. r \in Roots /\ Reached(tables, r, call.v, call.level, call.table)
    BY <1>1 DEF MmuInv, CallTable
  <2>2. QED
    BY <1>1, <2>1 DEF Reached, t
<1>10. PICK a, b : Leads(tables, r, call.v, a, b, t)
  BY <1>9
<1> DEFINE D == DOMAIN tables
<1>11. /\ Forest(tables, D, level)
       /\ \A s : s \in Roots <=> Root(D, level, s)
  BY TablesAreForest DEF MmuInv
<1>12. \A u \in D \ {t} : Same(tables, tables', u)
  BY <1>6 DEF Same, Has, To, Entry
<1>13. \A j : j # call.v[4] =>
         /\ Has(tables', t, j) <=> Has(tables, t, j)
         /\ Has(tables, t, j) => Entry(tables', t, j) = Entry(tables, t, j)
  BY <1>1, <1>7 DEF Has, Entry
<1> HIDE DEF D, r
<1>14. /\ \A x : x \in WalkIn(tables', r, call.v) <=>
                   Has(tables', t, call.v[4]) /\ x = Entry(tables', t, call.v[4])
       /\ \A s, w : Root(D, level, s) /\ w \in Page /\ (s # r \/ w # call.v) =>
            WalkIn(tables', s, w) = WalkIn(tables, s, w)
  <2>1. PICK v \in Page : v = call.v
    BY <1>2
  <2>2. Root(D, level, r) /\ Leads(tables, r, v, a, b, t)
    BY <1>9, <1>10, <1>11, <2>1
  <2>3. \A j : j # v[4] =>
          /\ Has(tables', t, j) <=> Has(tables, t, j)
          /\ Has(tables, t, j) => Entry(tables', t, j) = Entry(tables, t, j)
    BY <1>13, <2>1
  <2>4. /\ \A x : x \in WalkIn(tables', r, v) <=>
                    Has(tables', t, v[4]) /\ x = Entry(tables', t, v[4])
        /\ \A s, w : Root(D, level, s) /\ w \in Page /\ (s # r \/ w # v) =>
             WalkIn(tables', s, w) = WalkIn(tables, s, w)
    BY <1>11, <1>12, <2>2, <2>3, StoreChangesOne
  <2>5. QED
    BY <2>1, <2>4
<1>15. WalkIn(tables', r, call.v) = {e}
  BY <1>1, <1>7, <1>14 DEF Has, Entry
<1>16. QED
  BY <1>8, <1>11, <1>14, <1>15 DEF e, r

LEMMA InstallStep == ASSUME MmuInv, Install PROVE MmuInv'
<1>1. TableTypes' /\ Trees' /\ Roots' = Roots
  BY InstallEffect, StoreKeepsTrees
<1>2. /\ call.op = "map" /\ call'.op = "none" /\ CallTypes'
      /\ UNCHANGED <<level, free, kernel_pgd, booted, mmu, ttbr0, tlb>>
  BY DEF Install, Idle, CallTypes
<1>3. RootsKnown' /\ CallTable'
  BY <1>1, <1>2 DEF MmuInv, RootsKnown, CallTable
<1>4. NoUseAfterUnmap'
  <2>1. ASSUME mmu = "on", NEW v \in DOMAIN tlb
        PROVE  WalkIn(tables', ttbr0, v) # {}
    <3>1. WalkIn(tables, ttbr0, v) # {}
      BY <1>2, <2>1, NoUse DEF MmuInv, NoUseIn
    <3>2. v \in Page /\ ttbr0 \in Roots
      BY <2>1, Parts DEF MmuInv, RootsKnown, TlbTypes
    <3>3. WalkIn(tables', ttbr0, v) = WalkIn(tables, ttbr0, v)
          \/ WalkIn(tables', ttbr0, v) = {Pte(call.to, call.flags)}
      BY <3>2, InstallEffect
    <3>4. QED
      BY <3>1, <3>3
  <2>2. QED
    BY <1>2, <2>1, NoUse DEF NoUseIn
<1>5. QED
  BY <1>1, <1>2, <1>3, <1>4, Parts, TableStep

LEMMA ClearEffect ==
  ASSUME MmuInv, NEW r \in Roots, NEW v \in Page, tables' = WithoutEntry(r, v),
         UNCHANGED <<level, free>>
  PROVE  /\ LastTablesOnly
         /\ WalkIn(tables', r, v) = {}
         /\ \A s \in Roots, w \in Page : (s # r \/ w # v) =>
              WalkIn(tables', s, w) = WalkIn(tables, s, w)
         /\ WalkIn(tables, r, v) # {} => LastTable(r, v) # {}
<1> DEFINE D == DOMAIN tables
           S == LastIn(tables, r, v)
<1>1. /\ UNCHANGED <<level, free>>
      /\ tables' = [t \in D |-> IF t \in S THEN [i \in DOMAIN tables[t] \ {v[4]} |-> tables[t][i]]
                                ELSE tables[t]]
      /\ LastTable(r, v) = S
  BY WalkIsIn DEF WithoutEntry
<1>2. /\ Forest(tables, D, level) /\ Root(D, level, r)
      /\ \A s \in Roots : Root(D, level, s)
  BY TablesAreForest DEF MmuInv
<1>3. \A c \in S : c \in D /\ level[c] = 4
  BY <1>2, LastMembers, LeadsDown
<1>4. TableTypes
  BY TypesByPart DEF MmuInv, Inv
<1>5. \A t \in D : level[t] = 4 =>
        DOMAIN tables[t] \subseteq Index /\ \A i \in DOMAIN tables[t] : tables[t][i] \in PageEntry
  BY <1>4 DEF TableTypes
<1> HIDE DEF S
<1>6. /\ DOMAIN tables' = D
      /\ \A t \in D \ S : tables'[t] = tables[t]
      /\ \A t \in S : /\ DOMAIN tables'[t] = DOMAIN tables[t] \ {v[4]}
                      /\ \A i \in DOMAIN tables[t] \ {v[4]} : tables'[t][i] = tables[t][i]
  BY <1>1, <1>3
<1>7. LastTablesOnly
  BY <1>1, <1>3, <1>5, <1>6 DEF LastTablesOnly
<1>8. \A t \in D \ S : Same(tables, tables', t)
  BY <1>6 DEF Same, Has, To, Entry
<1> HIDE DEF D
<1>9. CASE S = {}
  <2>1. WalkIn(tables, r, v) = {}
    BY <1>9 DEF S, WalkIn
  <2>2. \A u \in D : Same(tables, tables', u)
    BY <1>8, <1>9
  <2>3. \A s \in Roots : \A w : WalkIn(tables', s, w) = WalkIn(tables, s, w)
    BY <1>2, <2>2, UnchangedWalks
  <2>4. QED
    BY <1>7, <2>1, <2>3
<1>10. CASE S # {}
  <2>1. PICK t : t \in S
    BY <1>10
  <2>2. PICK a, b : Leads(tables, r, v, a, b, t)
    BY <2>1, LastMembers DEF S
  <2>3. \A u \in S : u = t
    <3>1. ASSUME NEW u \in S PROVE u = t
      <4>1. PICK x, y : Leads(tables, r, v, x, y, u)
        BY LastMembers DEF S
      <4>2. QED
        BY <2>2, <4>1 DEF Leads
    <3>2. QED
      BY <3>1
  <2>4. \A u \in D \ {t} : Same(tables, tables', u)
    BY <1>8, <2>3
  <2>5. \A j : j # v[4] =>
          /\ Has(tables', t, j) <=> Has(tables, t, j)
          /\ Has(tables, t, j) => Entry(tables', t, j) = Entry(tables, t, j)
    BY <1>6, <2>1 DEF Has, Entry
  <2>6. /\ \A e : e \in WalkIn(tables', r, v) <=>
                    Has(tables', t, v[4]) /\ e = Entry(tables', t, v[4])
        /\ \A s, w : Root(D, level, s) /\ w \in Page /\ (s # r \/ w # v) =>
             WalkIn(tables', s, w) = WalkIn(tables, s, w)
    <3>1. Forest(tables, D, level) /\ Root(D, level, r)
      BY <1>2
    <3>2. QED
      BY <2>2, <2>4, <2>5, <3>1, StoreChangesOne
  <2>7. WalkIn(tables', r, v) = {}
    <3>1. ~Has(tables', t, v[4])
      BY <1>6, <2>1 DEF Has
    <3>2. QED
      BY <2>6, <3>1
  <2>8. QED
    BY <1>1, <1>2, <1>7, <1>10, <2>6, <2>7
<1>11. QED
  BY <1>9, <1>10

LEMMA ClearedEntry ==
  ASSUME MmuInv, ClearEntry
  PROVE  /\ LastTablesOnly
         /\ WalkIn(tables', call.root, call.v) = {}
         /\ \A s \in Roots, w \in Page : (s # call.root \/ w # call.v) =>
              WalkIn(tables', s, w) = WalkIn(tables, s, w)
         /\ WalkIn(tables, call.root, call.v) # {} =>
              call' = [op |-> "flush", pages |-> {call.v}]
<1>1. /\ tables' = WithoutEntry(call.root, call.v) /\ UNCHANGED <<level, free>>
      /\ LastTable(call.root, call.v) # {} => call' = [op |-> "flush", pages |-> {call.v}]
      /\ call.root \in Roots /\ call.v \in Page
  BY CallIsUnmap DEF ClearEntry
<1> DEFINE r == call.root
           v == call.v
<1> HIDE DEF r, v
<1>2. /\ r \in Roots /\ v \in Page /\ tables' = WithoutEntry(r, v) /\ UNCHANGED <<level, free>>
      /\ LastTable(r, v) # {} => call' = [op |-> "flush", pages |-> {v}]
  BY <1>1 DEF r, v
<1>3. /\ LastTablesOnly
      /\ WalkIn(tables', r, v) = {}
      /\ \A s \in Roots, w \in Page : (s # r \/ w # v) =>
           WalkIn(tables', s, w) = WalkIn(tables, s, w)
      /\ WalkIn(tables, r, v) # {} => LastTable(r, v) # {}
  BY <1>2, ClearEffect
<1>4. QED
  BY <1>2, <1>3 DEF r, v

LEMMA ClearEntryStep == ASSUME MmuInv, ClearEntry PROVE MmuInv'
<1>1. TableTypes' /\ Trees' /\ Roots' = Roots
  BY ClearedEntry, StoreKeepsTrees
<1>2. /\ call.op = "unmap" /\ call'.op \in {"none", "flush"}
      /\ UNCHANGED <<level, free, kernel_pgd, booted, mmu, ttbr0, tlb>>
  BY DEF ClearEntry, Idle
<1>3. CallTypes'
  BY CallIsUnmap DEF ClearEntry, CallTypes
<1>4. RootsKnown' /\ CallTable'
  BY <1>1, <1>2 DEF MmuInv, RootsKnown, CallTable
<1>5. NoUseAfterUnmap'
  <2>1. ASSUME mmu = "on", NEW w \in DOMAIN tlb, WalkIn(tables', ttbr0, w) = {}
        PROVE  call'.op = "flush" /\ w \in call'.pages
    <3>1. WalkIn(tables, ttbr0, w) # {}
      BY <1>2, <2>1, NoUse DEF MmuInv, NoUseIn
    <3>2. w \in Page /\ ttbr0 \in Roots
      BY <2>1, Parts DEF MmuInv, RootsKnown, TlbTypes
    <3>3. ttbr0 = call.root /\ w = call.v
      BY <2>1, <3>1, <3>2, ClearedEntry
    <3>4. call' = [op |-> "flush", pages |-> {call.v}]
      BY <3>1, <3>3, ClearedEntry
    <3>5. QED
      BY <3>3, <3>4
  <2>2. QED
    BY <1>2, <2>1, NoUse DEF NoUseIn
<1>6. QED
  BY <1>1, <1>2, <1>3, <1>4, <1>5, Parts, TableStep

----------------------------------------------------------------------------
LEMMA NextKeepsMmuInv == MmuInv /\ [Next]_vars => MmuInv'
<1> SUFFICES ASSUME MmuInv, [Next]_vars PROVE MmuInv'
  OBVIOUS
<1>1. CASE MmuInit
  BY <1>1, CreateKernelTableStep, MapNextPageStep, EnableMmuStep DEF MmuInit
<1>2. CASE InCall
  BY <1>2, GetTableStep, CreateTableStep, CreateFailsStep, InstallStep, ClearEntryStep,
     FlushStep DEF InCall
<1>3. CASE NewCall
  <2>1. CASE create_page_table
    BY <2>1, CreatePageTableStep
  <2>2. CASE \E r \in Roots : arm64_switch_page_table(r) \/ x86_64_switch_page_table(r)
    BY <2>2, SwitchStep
  <2>3. CASE \E r \in Roots, v \in Page : unmap_page(r, v)
    BY <2>3, UnmapPageStep
  <2>4. CASE \E r \in Roots, v \in Page, to \in Physical, flags \in Flags :
               map_page(r, v, to, flags)
    BY <2>4, MapPageStep
  <2>5. QED
    BY <1>3, <2>1, <2>2, <2>3, <2>4 DEF NewCall
<1>4. CASE Others \/ PageFault
  BY <1>4, OthersStep
<1>5. CASE TlbFill \/ TlbEvict
  BY <1>5, TlbStep
<1>6. CASE UNCHANGED vars
  <2>1. Steady
    BY <1>6, Parts DEF vars, Steady, CallTypes, TlbTypes
  <2>2. RootsKnown'
    BY <1>6 DEF vars, MmuInv, RootsKnown, Roots
  <2>3. NoUseAfterUnmap'
    BY <1>6, NoUse DEF vars, MmuInv, NoUseIn
  <2>4. QED
    BY <1>6, <2>1, <2>2, <2>3, Parts, QuietStep DEF vars
<1>7. QED
  BY <1>1, <1>2, <1>3, <1>4, <1>5, <1>6 DEF Next

LEMMA MmuInvariance == Spec => []MmuInv
  BY InitMmuInv, NextKeepsMmuInv, PTL DEF Spec

(* The page tables are trees, one for each root, out of the page           *)
(* allocator's reach, whatever calls are made and however many of them     *)
(* fail halfway.                                                           *)
THEOREM TablesAreTrees == Spec => []Inv
<1>1. MmuInv => Inv
  BY DEF MmuInv
<1>2. QED
  BY <1>1, MmuInvariance, PTL

(* Nobody reaches a page that unmap_page took away, or a page of the       *)
(* address space that was switched from, once the flush is done.           *)
THEOREM UnmappedStaysUnused == Spec => []NoUseAfterUnmap
<1>1. MmuInv => NoUseAfterUnmap
  BY DEF MmuInv
<1>2. QED
  BY <1>1, MmuInvariance, PTL

----------------------------------------------------------------------------
(* The steps as the abstract map sees them. *)

Spaces == [r \in Roots |-> [v \in Page |-> Walk(r, v)]]

LEMMA SpacesAre ==
  /\ Spaces = [r \in Roots |-> [v \in Page |-> WalkIn(tables, r, v)]]
  /\ Spaces' = [r \in Roots' |-> [v \in Page |-> WalkIn(tables', r, v)]]
  BY DEF Spaces, Walk, LastTable, Below, WalkIn, LastIn, BelowIn

LEMMA Unseen ==
  ASSUME Roots' = Roots,
         \A r \in Roots, v \in Page : WalkIn(tables', r, v) = WalkIn(tables, r, v)
  PROVE  Spaces' = Spaces
  BY SpacesAre

LEMMA UnseenIfUnchanged ==
  ASSUME UNCHANGED <<tables, level>>
  PROVE  Spaces' = Spaces
<1>1. Roots' = Roots
  BY DEF Roots
<1>2. QED
  BY <1>1, Unseen

LEMMA SeenAsCreate ==
  ASSUME MmuInv, NEW f, alloc_page_table(f, 1), tables' = Cleared(f)
  PROVE  f \in DOMAIN Spaces' /\ f \notin DOMAIN Spaces /\
         Spaces' = [s \in DOMAIN Spaces \cup {f} |->
                      IF s = f THEN [v \in Page |-> {}] ELSE Spaces[s]]
<1>1. /\ Roots' = Roots \cup {f} /\ f \notin Roots
      /\ \A r \in Roots : \A v : WalkIn(tables', r, v) = WalkIn(tables, r, v)
      /\ \A v : WalkIn(tables', f, v) = {}
  BY NewRoot, NewRootWalks
<1>2. QED
  BY <1>1, SpacesAre

(* One page of one space changes. *)
LEMMA SeenAsOnePage ==
  ASSUME Roots' = Roots, NEW r \in Roots, NEW v \in Page, NEW E, WalkIn(tables', r, v) = E,
         \A s \in Roots, w \in Page : (s # r \/ w # v) =>
           WalkIn(tables', s, w) = WalkIn(tables, s, w)
  PROVE  /\ r \in DOMAIN Spaces /\ Spaces'[r][v] = E
         /\ Spaces' = [Spaces EXCEPT ![r][v] = E]
<1>1. /\ Spaces \in [Roots -> [Page -> {WalkIn(tables, s, w) : s \in Roots, w \in Page}]]
      /\ \A s \in Roots, w \in Page : Spaces[s][w] = WalkIn(tables, s, w)
      /\ DOMAIN Spaces = Roots /\ \A s \in Roots : DOMAIN Spaces[s] = Page
  BY SpacesAre
<1>2. Spaces' = [s \in Roots |-> [w \in Page |-> IF s = r /\ w = v THEN E ELSE Spaces[s][w]]]
  <2>1. Spaces' = [s \in Roots |-> [w \in Page |-> WalkIn(tables', s, w)]]
    BY SpacesAre
  <2>2. ASSUME NEW s \in Roots
        PROVE  [w \in Page |-> WalkIn(tables', s, w)] =
               [w \in Page |-> IF s = r /\ w = v THEN E ELSE Spaces[s][w]]
    <3>1. \A w \in Page :
            WalkIn(tables', s, w) = IF s = r /\ w = v THEN E ELSE Spaces[s][w]
      <4>1. \A w \in Page : Spaces[s][w] = WalkIn(tables, s, w)
        BY <1>1
      <4>2. QED
        BY <4>1
    <3>2. QED
      BY <3>1
  <2>3. QED
    BY <2>1, <2>2
<1>3. [Spaces EXCEPT ![r][v] = E] =
        [s \in Roots |-> IF s = r THEN [Spaces[r] EXCEPT ![v] = E] ELSE Spaces[s]]
  BY <1>1
<1>4. [Spaces[r] EXCEPT ![v] = E] = [w \in Page |-> IF w = v THEN E ELSE Spaces[r][w]]
  <2>1. Spaces[r] \in [Page -> {WalkIn(tables, s, w) : s \in Roots, w \in Page}]
    BY <1>1
  <2>2. QED
    BY <2>1
<1>5. \A s \in Roots : Spaces[s] = [w \in Page |-> Spaces[s][w]]
  BY <1>1
<1>6. \A s \in Roots :
        (IF s = r THEN [Spaces[r] EXCEPT ![v] = E] ELSE Spaces[s]) =
        [w \in Page |-> IF s = r /\ w = v THEN E ELSE Spaces[s][w]]
  BY <1>4, <1>5
<1>7. QED
  BY <1>1, <1>2, <1>3, <1>6

(* What call c asks for, if anything. *)
RequestOf(c) ==
  IF c.op = "map"
  THEN [op |-> "map", root |-> c.root, page |-> c.v, entry |-> Pte(c.to, c.flags)]
  ELSE IF c.op = "unmap"
  THEN [op |-> "unmap", root |-> c.root, page |-> c.v]
  ELSE Promise!NoRequest

LEMMA RequestIs == Request = RequestOf(call) /\ Request' = RequestOf(call')
<1>1. Request = RequestOf(call)
  BY DEF Request, RequestOf, Promise!NoRequest
<1>2. Request' = RequestOf(call')
  BY DEF Request, RequestOf, Promise!NoRequest, Pte, arm64_pte, x86_64_pte
<1>3. QED
  BY <1>1, <1>2

LEMMA NothingAsked ==
  ASSUME NEW c, c.op \notin {"map", "unmap"}
  PROVE  RequestOf(c) = Promise!NoRequest
  BY DEF RequestOf

(* A call begins: what it asks for becomes known, and no table changes.    *)
LEMMA BeginsAsAsk ==
  ASSUME MmuInv, call = Idle, UNCHANGED <<tables, level>>,
         NEW r \in Roots, NEW v \in Page,
         \/ call'.op = "unmap" /\ call'.root = r /\ call'.v = v
         \/ /\ call'.op = "map" /\ call'.root = r /\ call'.v = v
            /\ Pte(call'.to, call'.flags) \in PageEntry
  PROVE  Promise!Ask
<1>1. Request = Promise!NoRequest
  BY RequestIs, NothingAsked DEF Idle
<1>2. Spaces' = Spaces /\ DOMAIN Spaces = Roots
  BY UnseenIfUnchanged, SpacesAre
<1>3. Request' \in Promise!MapRequest \/ Request' \in Promise!UnmapRequest
  <2> DEFINE e == Pte(call'.to, call'.flags)
  <2> HIDE DEF e
  <2>1. \/ Request' = [op |-> "unmap", root |-> r, page |-> v]
        \/ Request' = [op |-> "map", root |-> r, page |-> v, entry |-> e] /\ e \in PageEntry
    BY RequestIs DEF RequestOf, e
  <2>2. CASE Request' = [op |-> "unmap", root |-> r, page |-> v]
    BY <1>2, <2>2 DEF Promise!UnmapRequest, Spaces
  <2>3. CASE Request' = [op |-> "map", root |-> r, page |-> v, entry |-> e] /\ e \in PageEntry
    BY <1>2, <2>3 DEF Promise!MapRequest, Spaces
  <2>4. QED
    BY <2>1, <2>2, <2>3
<1>4. QED
  BY <1>1, <1>2, <1>3 DEF Promise!Ask, Spaces

(* Both variables of the abstract map stay. *)
Stutters == Spaces' = Spaces /\ Request' = Request

LEMMA MapStepsAreSeen ==
  ASSUME MmuInv, GetTable \/ CreateTable
  PROVE  Stutters
<1>1. call.op = "map" /\ call \in MapCall
  BY CallIsMap DEF GetTable, CreateTable, MmuInv
<1>2. \E l, t : call' = [call EXCEPT !.level = l, !.table = t]
  BY DEF GetTable, CreateTable
<1>3. /\ call'.op = "map" /\ call'.root = call.root /\ call'.v = call.v
      /\ call'.to = call.to /\ call'.flags = call.flags
  BY <1>1, <1>2 DEF MapCall
<1>4. Request' = Request
  BY <1>1, <1>3, RequestIs DEF RequestOf
<1>5. Spaces' = Spaces
  <2>1. CASE GetTable
    BY <2>1, UnseenIfUnchanged DEF GetTable
  <2>2. CASE CreateTable
    <3>1. PICK f : CreatesAt(f)
      BY <2>2 DEF CreateTable, CreatesAt, Has
    <3>2. Roots' = Roots
      BY <3>1, NewTableTrees
    <3>3. \A r \in Roots, v \in Page : WalkIn(tables', r, v) = WalkIn(tables, r, v)
      BY <3>1, NewTableWalks
    <3>4. QED
      BY <3>2, <3>3, Unseen
  <2>3. QED
    BY <2>1, <2>2
<1>6. QED
  BY <1>4, <1>5 DEF Stutters

LEMMA InstallIsSeen ==
  ASSUME MmuInv, Install
  PROVE  Promise!Map
<1> DEFINE r == call.root
           v == call.v
           e == Pte(call.to, call.flags)
<1>1. /\ call.op = "map" /\ call'.op = "none" /\ Roots' = Roots
      /\ v \in Page /\ r \in Roots
  BY InstallEffect, StoreKeepsTrees, CallIsMap DEF Install, Idle, MmuInv, CallTable
<1>2. /\ WalkIn(tables', r, v) = {e}
      /\ \A s \in Roots, w \in Page : (s # r \/ w # v) =>
           WalkIn(tables', s, w) = WalkIn(tables, s, w)
  BY InstallEffect
<1>3. /\ Request = [op |-> "map", root |-> r, page |-> v, entry |-> e]
      /\ Request' = Promise!NoRequest
  BY <1>1, RequestIs, NothingAsked DEF RequestOf
<1> HIDE DEF r, v, e
<1>4. Spaces' = [Spaces EXCEPT ![r][v] = {e}]
  BY <1>1, <1>2, SeenAsOnePage
<1>5. Request.op = "map" /\ Request.root = r /\ Request.page = v /\ Request.entry = e
  BY <1>3
<1>6. QED
  BY <1>3, <1>4, <1>5 DEF Promise!Map, Spaces

LEMMA ClearIsSeen ==
  ASSUME MmuInv, ClearEntry
  PROVE  Promise!Unmap
<1> DEFINE r == call.root
           v == call.v
<1>1. /\ call.op = "unmap" /\ call'.op \in {"none", "flush"} /\ Roots' = Roots
      /\ v \in Page /\ r \in Roots
  BY ClearedEntry, StoreKeepsTrees, CallIsUnmap DEF ClearEntry, Idle
<1>2. /\ WalkIn(tables', r, v) = {}
      /\ \A s \in Roots, w \in Page : (s # r \/ w # v) =>
           WalkIn(tables', s, w) = WalkIn(tables, s, w)
  BY ClearedEntry
<1>3. /\ Request = [op |-> "unmap", root |-> r, page |-> v]
      /\ Request' = Promise!NoRequest
  BY <1>1, RequestIs, NothingAsked DEF RequestOf
<1> HIDE DEF r, v
<1>4. Spaces' = [Spaces EXCEPT ![r][v] = {}]
  BY <1>1, <1>2, SeenAsOnePage
<1>5. Request.op = "unmap" /\ Request.root = r /\ Request.page = v
  BY <1>3
<1>6. QED
  BY <1>3, <1>4, <1>5 DEF Promise!Unmap, Spaces

LEMMA FailureIsSeen ==
  ASSUME MmuInv, CreateFails
  PROVE  Promise!Refuse
<1>1. call.op = "map" /\ call'.op = "none" /\ UNCHANGED <<tables, level>>
  BY DEF CreateFails, Idle
<1>2. Request.op = "map" /\ Request' = Promise!NoRequest
  BY <1>1, RequestIs, NothingAsked DEF RequestOf
<1>3. Spaces' = Spaces
  BY <1>1, UnseenIfUnchanged
<1>4. QED
  BY <1>2, <1>3 DEF Promise!Refuse, Spaces

LEMMA StepIsPromised == MmuInv /\ [Next]_vars => [Promise!Next]_<<Spaces, Request>>
<1> SUFFICES ASSUME MmuInv, [Next]_vars PROVE Promise!Next \/ Stutters
  BY DEF Stutters
<1>1. CASE UNCHANGED <<tables, level, call>>
  BY <1>1, UnseenIfUnchanged, RequestIs DEF Stutters
<1>2. CASE /\ UNCHANGED <<tables, level>>
           /\ call.op \notin {"map", "unmap"} /\ call'.op \notin {"map", "unmap"}
  BY <1>2, UnseenIfUnchanged, RequestIs, NothingAsked DEF Stutters
<1>3. ASSUME NEW f, alloc_page_table(f, 1), tables' = Cleared(f), UNCHANGED call,
             call.op \notin {"map", "unmap"}
      PROVE  Promise!Next
  <2>1. f \in Frame /\ f \notin DOMAIN Spaces
        /\ Spaces' = [s \in DOMAIN Spaces \cup {f} |->
                        IF s = f THEN [v \in Page |-> {}] ELSE Spaces[s]]
    <3>1. f \in Frame
      <4>1. f \in free
        BY <1>3 DEF alloc_page_table, Lowest
      <4>2. QED
        BY <4>1, TypesByPart DEF MmuInv, Inv, TableTypes
    <3>2. QED
      BY <1>3, <3>1, SeenAsCreate
  <2>2. Request = Promise!NoRequest /\ Request' = Request
    BY <1>3, RequestIs, NothingAsked
  <2>3. Promise!Create(f)
    BY <2>1, <2>2 DEF Promise!Create, Spaces
  <2>4. QED
    BY <2>1, <2>3 DEF Promise!Next
<1>4. CASE MmuInit
  <2>1. CASE CreateKernelTable
    <3>1. call.op \notin {"map", "unmap"} /\ UNCHANGED call
      BY <2>1 DEF CreateKernelTable, MmuInv, CallTable
    <3>2. QED
      BY <1>1, <1>3, <2>1, <3>1 DEF CreateKernelTable
  <2>2. CASE MapNextPage
    <3> DEFINE m == Mappings[booted + 1]
    <3>1. /\ call = Idle /\ BeginMap(kernel_pgd, m.v, m.to, m.flags)
          /\ booted < Len(Mappings) /\ UNCHANGED <<tables, level>>
      BY <2>2 DEF MapNextPage
    <3>2. kernel_pgd \in Roots
      BY <2>2 DEF MapNextPage, MmuInv, RootsKnown
    <3>3. booted + 1 \in 1 .. Len(Mappings)
      BY <3>1, Parts
    <3>4. /\ m.v \in Page /\ m.to \in Physical \cup Page
          /\ m.flags \in {n.flags : n \in {Mappings[k] : k \in DOMAIN Mappings}}
      BY <3>3, MappingFacts
    <3> HIDE DEF m
    <3>5. Pte(m.to, m.flags) \in PageEntry
      BY <3>4, PteIsEntry
    <3>6. /\ call'.op = "map" /\ call'.root = kernel_pgd /\ call'.v = m.v
          /\ call'.to = m.to /\ call'.flags = m.flags
      BY <3>1 DEF BeginMap
    <3>7. QED
      BY <3>1, <3>2, <3>4, <3>5, <3>6, BeginsAsAsk DEF Promise!Next
  <2>3. CASE EnableMmu
    BY <1>1, <2>3 DEF EnableMmu
  <2>4. QED
    BY <1>4, <2>1, <2>2, <2>3 DEF MmuInit
<1>5. CASE InCall
  <2>1. CASE Flush
    BY <1>2, <2>1 DEF Flush, Idle
  <2>2. CASE GetTable \/ CreateTable
    BY <2>2, MapStepsAreSeen
  <2>3. CASE CreateFails \/ Install \/ ClearEntry
    BY <2>3, FailureIsSeen, InstallIsSeen, ClearIsSeen DEF Promise!Next
  <2>4. QED
    BY <1>5, <2>1, <2>2, <2>3 DEF InCall
<1>6. CASE NewCall
  <2>1. CASE create_page_table
    BY <1>3, <2>1 DEF create_page_table, Idle
  <2>2. CASE \E r \in Roots : arm64_switch_page_table(r) \/ x86_64_switch_page_table(r)
    BY <1>2, <2>2 DEF arm64_switch_page_table, x86_64_switch_page_table, Idle
  <2>3. ASSUME NEW r \in Roots, NEW v \in Page, unmap_page(r, v)
        PROVE  Promise!Next
    <3>1. /\ call = Idle /\ UNCHANGED <<tables, level>>
          /\ call'.op = "unmap" /\ call'.root = r /\ call'.v = v
      BY <2>3 DEF unmap_page
    <3>2. QED
      BY <3>1, BeginsAsAsk DEF Promise!Next
  <2>4. ASSUME NEW r \in Roots, NEW v \in Page, NEW to \in Physical, NEW flags \in Flags,
               map_page(r, v, to, flags)
        PROVE  Promise!Next
    <3>1. /\ call = Idle /\ UNCHANGED <<tables, level>>
          /\ call'.op = "map" /\ call'.root = r /\ call'.v = v
          /\ call'.to = to /\ call'.flags = flags
      BY <2>4 DEF map_page, BeginMap
    <3>2. Pte(to, flags) \in PageEntry
      BY PteIsEntry
    <3>3. QED
      BY <3>1, <3>2, BeginsAsAsk DEF Promise!Next
  <2>5. QED
    BY <1>6, <2>1, <2>2, <2>3, <2>4 DEF NewCall
<1>7. CASE Others \/ PageFault \/ TlbFill \/ TlbEvict \/ UNCHANGED vars
  BY <1>1, <1>7 DEF Others, PageFault, TlbFill, TlbEvict, vars
<1>8. QED
  BY <1>4, <1>5, <1>6, <1>7 DEF Next

(* The four-level tables keep what an address map promises.  Whatever root *)
(* and page map_page or unmap_page is called with, that page of that       *)
(* root's space is what changes, to the entry asked for or to none; a call *)
(* that fails halfway changes no page.                                     *)
THEOREM MmuIsAnAddressMap == Spec => ImplementsAddressMap
<1>1. Init => Promise!Init
  <2>1. Init => Roots = {} /\ Request = Promise!NoRequest
    BY RequestIs, NothingAsked DEF Init, Roots, Idle
  <2>2. QED
    BY <2>1 DEF Promise!Init
<1>2. MmuInv /\ [Next]_vars => [Promise!Next]_<<Spaces, Request>>
  BY StepIsPromised
<1>3. QED
  BY <1>1, <1>2, MmuInvariance, PTL DEF Spec, ImplementsAddressMap, Promise!Spec, Spaces

----------------------------------------------------------------------------
(* A step that changes a table leaves the TLB and the root alone, and is   *)
(* taken while the TLB is empty or the root is one.                        *)
LEMMA FreshAfter ==
  ASSUME MmuInv, NEW v \in DOMAIN tlb, tlb[v] \in WalkIn(tables, ttbr0, v),
         mmu \in {"off", "on"}, UNCHANGED <<tlb, ttbr0>>,
         \A r \in Roots : \/ WalkIn(tables', r, v) = WalkIn(tables, r, v)
                          \/ call.op = "map" /\ call.v = v /\ WalkIn(tables', r, v) # {}
                          \/ call'.op = "flush" /\ v \in call'.pages
  PROVE  \/ tlb'[v] \in WalkIn(tables', ttbr0', v)
         \/ call'.op = "flush" /\ v \in call'.pages
         \/ call.op = "map" /\ call.v = v /\ WalkIn(tables', ttbr0', v) # {}
<1>1. ttbr0 \in Roots
  BY DEF MmuInv, RootsKnown
<1>2. QED
  BY <1>1

(* Staleness of one page in terms of WalkIn.                               *)
StaysFresh(v) ==
  \/ v \notin DOMAIN tlb'
  \/ tlb'[v] \in WalkIn(tables', ttbr0', v)
  \/ call'.op = "flush" /\ v \in call'.pages
  \/ call.op = "map" /\ call.v = v /\ WalkIn(tables', ttbr0', v) # {}

LEMMA StepStaysFresh ==
  ASSUME MmuInv, Next, NEW v \in DOMAIN tlb, tlb[v] \in WalkIn(tables, ttbr0, v)
  PROVE  StaysFresh(v)
<1> DEFINE Runs == mmu \in {"off", "on"}
<1>1. v \in Page
  BY Parts DEF TlbTypes
<1>2. CASE UNCHANGED <<tables, ttbr0>> /\ (v \in DOMAIN tlb' => tlb'[v] = tlb[v])
  BY <1>2 DEF StaysFresh
<1>3. CASE Runs /\ create_page_table
  <2>1. PICK f \in free : alloc_page_table(f, 1) /\ tables' = Cleared(f)
    BY <1>3 DEF create_page_table
  <2>2. \A r \in Roots : WalkIn(tables', r, v) = WalkIn(tables, r, v)
    BY <2>1, NewRootWalks
  <2>3. UNCHANGED <<tlb, ttbr0>>
    BY <1>3 DEF create_page_table
  <2>4. QED
    BY <1>3, <2>2, <2>3, FreshAfter DEF StaysFresh
<1>4. CASE Runs /\ CreateTable
  <2>1. PICK f : CreatesAt(f)
    BY <1>4 DEF CreateTable, CreatesAt, Has
  <2>2. \A r \in Roots : WalkIn(tables', r, v) = WalkIn(tables, r, v)
    BY <2>1, NewTableWalks
  <2>3. UNCHANGED <<tlb, ttbr0>>
    BY <1>4 DEF CreateTable
  <2>4. QED
    BY <1>4, <2>2, <2>3, FreshAfter DEF StaysFresh
<1>5. CASE Runs /\ Install
  <2>1. /\ WalkIn(tables', call.root, call.v) = {Pte(call.to, call.flags)}
        /\ \A s \in Roots, w \in Page : (s # call.root \/ w # call.v) =>
             WalkIn(tables', s, w) = WalkIn(tables, s, w)
    BY <1>5, InstallEffect
  <2>2. call.op = "map" /\ UNCHANGED <<tlb, ttbr0>>
    BY <1>5 DEF Install
  <2>3. \A s \in Roots : \/ WalkIn(tables', s, v) = WalkIn(tables, s, v)
                         \/ call.op = "map" /\ call.v = v /\ WalkIn(tables', s, v) # {}
    BY <1>1, <2>1, <2>2
  <2>4. QED
    BY <1>5, <2>2, <2>3, FreshAfter DEF StaysFresh
<1>6. CASE Runs /\ ClearEntry
  <2>1. UNCHANGED <<tlb, ttbr0>>
    BY <1>6 DEF ClearEntry
  <2>2. ttbr0 \in Roots
    BY <1>6 DEF MmuInv, RootsKnown
  <2>3. CASE ttbr0 # call.root \/ v # call.v
    <3>1. WalkIn(tables', ttbr0, v) = WalkIn(tables, ttbr0, v)
      BY <1>1, <1>6, <2>2, <2>3, ClearedEntry
    <3>2. QED
      BY <2>1, <3>1 DEF StaysFresh
  <2>4. CASE ttbr0 = call.root /\ v = call.v
    <3>1. call' = [op |-> "flush", pages |-> {v}]
      BY <1>6, <2>4, ClearedEntry
    <3>2. QED
      BY <3>1 DEF StaysFresh
  <2>5. QED
    BY <2>3, <2>4
<1>7. CASE DOMAIN tlb' = {} \/ (call'.op = "flush" /\ call'.pages = Page)
  BY <1>1, <1>7 DEF StaysFresh
<1>8. CASE MmuInit
  <2>1. mmu = "off"
    BY <1>8 DEF MmuInit, CreateKernelTable, MapNextPage, EnableMmu
  <2>2. QED
    BY <2>1 DEF MmuInv, RootsKnown
<1>9. CASE Runs /\ InCall
  BY <1>2, <1>4, <1>5, <1>6, <1>9 DEF InCall, GetTable, CreateFails, Flush
<1>10. CASE Runs /\ NewCall
  <2>1. CASE create_page_table
    BY <1>3, <1>10, <2>1
  <2>2. CASE \E r \in Roots : arm64_switch_page_table(r) \/ x86_64_switch_page_table(r)
    <3>1. CASE \E r \in Roots : arm64_switch_page_table(r)
      BY <1>7, <3>1 DEF arm64_switch_page_table
    <3>2. CASE \E r \in Roots : x86_64_switch_page_table(r)
      BY <1>7, <3>2 DEF x86_64_switch_page_table
    <3>3. QED
      BY <2>2, <3>1, <3>2
  <2>3. CASE \E r \in Roots, w \in Page : unmap_page(r, w)
    BY <1>2, <2>3 DEF unmap_page
  <2>4. CASE \E r \in Roots, w \in Page, to \in Physical, flags \in Flags :
               map_page(r, w, to, flags)
    BY <1>2, <2>4 DEF map_page
  <2>5. QED
    BY <1>10, <2>1, <2>2, <2>3, <2>4 DEF NewCall
<1>11. CASE Others \/ PageFault \/ TlbFill \/ TlbEvict
  BY <1>2, <1>11 DEF Others, PageFault, TlbFill, TlbEvict
<1>12. QED
  BY <1>8, <1>9, <1>10, <1>11 DEF Next

(* An entry of the TLB comes to disagree with the tables only by a page    *)
(* mapped again while it is mapped, or until the flush under way.          *)
THEOREM OnlyRemapsLeaveStale == Spec => StaleOnlyByRemap
<1> DEFINE Fresh ==
      \A v \in DOMAIN tlb :
        tlb[v] \in Walk(ttbr0, v) =>
          \/ v \notin DOMAIN tlb'
          \/ tlb'[v] \in Walk(ttbr0, v)'
          \/ call'.op = "flush" /\ v \in call'.pages
          \/ call.op = "map" /\ call.v = v /\ Walk(ttbr0, v)' # {}
<1>1. MmuInv /\ [Next]_vars => [Fresh]_vars
  <2>1. SUFFICES ASSUME MmuInv, Next PROVE Fresh
    OBVIOUS
  <2>2. \A v : /\ Walk(ttbr0, v) = WalkIn(tables, ttbr0, v)
               /\ Walk(ttbr0, v)' = WalkIn(tables', ttbr0', v)
    BY DEF Walk, LastTable, Below, WalkIn, LastIn, BelowIn
  <2>3. \A v \in DOMAIN tlb : tlb[v] \in WalkIn(tables, ttbr0, v) => StaysFresh(v)
    BY <2>1, StepStaysFresh
  <2>4. QED
    BY <2>2, <2>3 DEF StaysFresh
<1>2. QED
  BY <1>1, MmuInvariance, PTL DEF Spec, StaleOnlyByRemap

----------------------------------------------------------------------------
(* mmu_init, until it switches the MMU on: there is one root, and every    *)
(* page it has come to translates as asked, but for that of the call under *)
(* way.                                                                    *)
MappedAs(T, r, k) == WalkIn(T, r, Mappings[k].v) = {Pte(Mappings[k].to, Mappings[k].flags)}

BootInv ==
  mmu = "off" =>
    /\ Roots \subseteq {kernel_pgd}
    /\ kernel_pgd = NULL => booted = 0
    /\ call.op = "map" =>
         /\ booted \in 1 .. Len(Mappings) /\ call.v = Mappings[booted].v
         /\ call.to = Mappings[booted].to /\ call.flags = Mappings[booted].flags
    /\ \A k \in 1 .. booted : (call.op = "map" /\ k = booted) \/ MappedAs(tables, kernel_pgd, k)

LEMMA BootStays ==
  ASSUME MmuInv, BootInv, mmu' = "off", Next
  PROVE  BootInv'
<1>1. mmu = "off" /\ booted \in Nat /\ Len(Mappings) \in Nat
  <2>1. CASE mmu' = mmu
    BY <2>1, Parts
  <2>2. CASE mmu' # mmu
    BY <2>2 DEF Next, MmuInit, CreateKernelTable, MapNextPage, EnableMmu, InCall, GetTable,
                CreateTable, CreateFails, Install, ClearEntry, Flush, NewCall, create_page_table,
                arm64_switch_page_table, x86_64_switch_page_table, unmap_page, map_page,
                Others, PageFault, TlbFill, TlbEvict
  <2>3. QED
    BY <2>1, <2>2
<1>2. CASE CreateKernelTable
  <2>1. PICK f \in free : alloc_page_table(f, 1) /\ tables' = Cleared(f) /\ kernel_pgd' = f
    BY <1>2 DEF CreateKernelTable
  <2>2. Roots' = Roots \cup {f} /\ f \in Frame
    BY <2>1, NewRoot, Parts
  <2>3. Roots \subseteq {NULL} /\ Roots \subseteq Frame /\ booted = 0 /\ call.op # "map"
    BY <1>1, <1>2, Parts DEF BootInv, CreateKernelTable, MmuInv, CallTable
  <2>4. Roots' \subseteq {kernel_pgd'} /\ kernel_pgd' # NULL
    BY <2>1, <2>2, <2>3, MmuAssumption
  <2>5. booted' = 0 /\ call' = call
    BY <1>2, <2>3 DEF CreateKernelTable
  <2>6. QED
    BY <2>3, <2>4, <2>5 DEF BootInv
<1>3. CASE MapNextPage
  <2>1. /\ call.op # "map" /\ kernel_pgd # NULL /\ booted < Len(Mappings)
        /\ booted' = booted + 1
        /\ UNCHANGED <<tables, level, kernel_pgd, mmu>>
        /\ call'.op = "map" /\ call'.v = Mappings[booted + 1].v
        /\ call'.to = Mappings[booted + 1].to /\ call'.flags = Mappings[booted + 1].flags
    BY <1>3 DEF MapNextPage, BeginMap, Idle
  <2>2. booted' \in 1 .. Len(Mappings) /\ \A k \in 1 .. booted' : k = booted' \/ k \in 1 .. booted
    BY <1>1, <2>1
  <2>3. \A k \in 1 .. booted : MappedAs(tables, kernel_pgd, k)
    BY <1>1, <2>1 DEF BootInv
  <2>4. \A k \in 1 .. booted' : k = booted' \/ MappedAs(tables', kernel_pgd', k)
    BY <2>1, <2>2, <2>3
  <2>5. Roots' \subseteq {kernel_pgd'} /\ kernel_pgd' # NULL
    BY <1>1, <2>1 DEF BootInv, Roots
  <2>6. QED
    BY <2>1, <2>2, <2>4, <2>5 DEF BootInv
<1>4. CASE CreateTable
  <2>1. PICK f : CreatesAt(f)
    BY <1>4 DEF CreateTable, CreatesAt, Has
  <2>2. Roots' = Roots /\ call \in MapCall
    BY <2>1, NewTableTrees, CallIsMap DEF CreatesAt, MmuInv
  <2>3. /\ call.op = "map" /\ call'.op = "map" /\ call'.v = call.v /\ call'.to = call.to
        /\ call'.flags = call.flags /\ UNCHANGED <<kernel_pgd, booted>>
        /\ kernel_pgd # NULL
    BY <2>1, <2>2 DEF CreatesAt, MapCall, MmuInv, CallTable
  <2>4. kernel_pgd \in Roots
    BY <2>3 DEF MmuInv, RootsKnown
  <2>5. \A k : MappedAs(tables', kernel_pgd, k) <=> MappedAs(tables, kernel_pgd, k)
    BY <2>1, <2>4, NewTableWalks DEF MappedAs
  <2>6. QED
    BY <1>1, <2>2, <2>3, <2>5 DEF BootInv
<1>5. CASE Install
  <2>1. Roots' = Roots /\ call.op = "map" /\ call'.op # "map" /\ UNCHANGED <<kernel_pgd, booted>>
    BY <1>5, InstallEffect, StoreKeepsTrees DEF Install, Idle
  <2>2. kernel_pgd \in Roots /\ Roots \subseteq {kernel_pgd} /\ kernel_pgd # NULL
    BY <1>1, <2>1 DEF MmuInv, RootsKnown, CallTable, BootInv
  <2>3. /\ booted \in 1 .. Len(Mappings) /\ call.v = Mappings[booted].v
        /\ call.to = Mappings[booted].to /\ call.flags = Mappings[booted].flags
    BY <1>1, <2>1 DEF BootInv
  <2>4. /\ WalkIn(tables', kernel_pgd, call.v) = {Pte(call.to, call.flags)}
        /\ \A w \in Page : w # call.v =>
             WalkIn(tables', kernel_pgd, w) = WalkIn(tables, kernel_pgd, w)
    <3>1. call.root = kernel_pgd
      BY <2>1, <2>2 DEF MmuInv, CallTable
    <3>2. QED
      BY <1>5, <2>2, <3>1, InstallEffect
  <2>5. ASSUME NEW k \in 1 .. booted PROVE MappedAs(tables', kernel_pgd, k)
    <3>1. CASE k = booted
      BY <2>3, <2>4, <3>1 DEF MappedAs
    <3>2. CASE k # booted
      <4>1. k \in DOMAIN Mappings /\ booted \in DOMAIN Mappings /\ Mappings[k].v \in Page
        BY <1>1, <2>3, MappingFacts
      <4>2. Mappings[k].v # call.v
        BY <2>3, <3>2, <4>1, NoPageTwice
      <4>3. MappedAs(tables, kernel_pgd, k)
        BY <1>1, <3>2 DEF BootInv
      <4>4. QED
        BY <2>4, <4>1, <4>2, <4>3 DEF MappedAs
    <3>3. QED
      BY <3>1, <3>2
  <2>6. QED
    BY <2>1, <2>2, <2>5 DEF BootInv
<1>6. CASE GetTable
  <2>1. call \in MapCall
    BY <1>6, CallIsMap DEF GetTable, MmuInv
  <2>2. /\ call.op = "map" /\ call'.op = "map" /\ call'.v = call.v /\ call'.to = call.to
        /\ call'.flags = call.flags /\ UNCHANGED <<tables, level, kernel_pgd, booted>>
    BY <1>6, <2>1 DEF GetTable, MapCall
  <2>3. QED
    BY <1>1, <2>2 DEF BootInv, Roots
<1>7. CASE Flush
  <2>1. call.op # "map" /\ call'.op # "map" /\ UNCHANGED <<tables, level, kernel_pgd, booted>>
    BY <1>7 DEF Flush, Idle
  <2>2. QED
    BY <1>1, <2>1 DEF BootInv, Roots
<1>8. CASE TlbEvict
  BY <1>1, <1>8 DEF TlbEvict, BootInv, Roots
<1>9. ~ClearEntry
  BY <1>1, CallIsUnmap DEF ClearEntry
<1>10. QED
  BY <1>1, <1>2, <1>3, <1>4, <1>5, <1>6, <1>7, <1>8, <1>9
  DEF Next, MmuInit, EnableMmu, InCall, CreateFails, NewCall, create_page_table,
      arm64_switch_page_table, x86_64_switch_page_table, unmap_page, map_page,
      Others, PageFault, TlbFill

LEMMA BootInvariance == Spec => []BootInv
<1>1. Init => BootInv
  BY DEF Init, BootInv, Roots, Idle
<1>2. MmuInv /\ BootInv /\ [Next]_vars => BootInv'
  <2>1. SUFFICES ASSUME MmuInv, BootInv, [Next]_vars, mmu' = "off" PROVE BootInv'
    BY DEF BootInv
  <2>2. CASE Next
    BY <2>1, <2>2, BootStays
  <2>3. CASE UNCHANGED vars
    BY <2>1, <2>3 DEF vars, BootInv, Roots
  <2>4. QED
    BY <2>1, <2>2, <2>3
<1>3. QED
  BY <1>1, <1>2, MmuInvariance, PTL DEF Spec

(* When mmu_init switches the MMU on, every page it mapped translates as   *)
(* it asked, whatever tables the pages share.                              *)
THEOREM MmuGoesOnMapped == Spec => EnabledWithMappings
<1> DEFINE Mapped ==
      mmu = "off" /\ mmu' = "on" =>
        \A k \in DOMAIN Mappings :
          Walk(ttbr0, Mappings[k].v)' = {Pte(Mappings[k].to, Mappings[k].flags)}
<1>1. MmuInv /\ BootInv /\ [Next]_vars => [Mapped]_vars
  <2>1. SUFFICES ASSUME MmuInv, BootInv, Next, mmu = "off", mmu' = "on" PROVE Mapped
    OBVIOUS
  <2>2. EnableMmu
    BY <2>1 DEF Next, MmuInit, CreateKernelTable, MapNextPage, InCall, GetTable,
                CreateTable, CreateFails, Install, ClearEntry, Flush, NewCall, create_page_table,
                arm64_switch_page_table, x86_64_switch_page_table, unmap_page, map_page,
                Others, PageFault, TlbFill, TlbEvict
  <2>3. /\ call.op # "map" /\ booted = Len(Mappings) /\ ttbr0' = kernel_pgd /\ tables' = tables
    BY <2>2 DEF EnableMmu, Idle
  <2>4. \A k \in DOMAIN Mappings : MappedAs(tables', ttbr0', k)
    BY <2>1, <2>3, MappingFacts DEF BootInv
  <2>5. \A v : Walk(ttbr0, v)' = WalkIn(tables', ttbr0', v)
    BY DEF Walk, LastTable, Below, WalkIn, LastIn, BelowIn
  <2>6. QED
    BY <2>4, <2>5 DEF MappedAs
<1>2. QED
  BY <1>1, MmuInvariance, BootInvariance, PTL DEF Spec, EnabledWithMappings
=============================================================================
