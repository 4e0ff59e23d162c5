---------------------------- MODULE InitRdProofs ----------------------------
(***************************************************************************)
(* Theorems about InitRd, for files and buffers of every size: a caller of *)
(* vfs_read gets the bytes of the file it opened and no other, in order,   *)
(* and is told of the end only there.                                      *)
(***************************************************************************)
EXTENDS InitRd, SequenceTheorems, TLAPS

(* The inductive invariant: what was opened is a node of the one file      *)
(* system there is, and what was read of it is as much as was counted.     *)
NodeIsThere ==
  /\ num_files \in {0, 2}
  /\ vfs_root \in {NULL, ROOT}
  /\ node \in File \cup {NULL, ROOT}
  /\ node \in File => num_files = 2

CountsItsBytes ==
  /\ offset \in Nat
  /\ node \in File => offset <= sizes[node]
  /\ node \in File => got = [i \in 1 .. offset |-> Contents(node)[i]]
  /\ node \notin File => got = <<>> /\ offset = 0

RdInv == NodeIsThere /\ CountsItsBytes

(* offset + size is what C computes, for a caller within a file.           *)
LEMMA NoWrap ==
  ASSUME NEW f \in File, NEW off \in Nat, off <= sizes[f], NEW n \in Request
  PROVE  (off + n) % 2 ^ WIDTH = off + n
<1> DEFINE w == 2 ^ WIDTH
<1>1. w \in Int /\ n \in Nat /\ sizes[f] \in Nat /\ sizes[f] + n < w
  BY RequestAssumption, FileAssumption
<1> HIDE DEF w
<1>2. off + n \in Nat /\ off + n < w
  BY <1>1
<1>3. (off + n) % w = off + n
  BY <1>1, <1>2
<1> QED BY <1>3 DEF w

(* A read is as long as the buffer or as what is left, whichever is less.  *)
LEMMA ReadLength ==
  ASSUME NEW f \in File, NEW off \in Nat, off <= sizes[f], NEW n \in Request
  PROVE  /\ BytesToRead(f, off, n) \in Nat
         /\ off + BytesToRead(f, off, n) <= sizes[f]
         /\ n # 0 /\ BytesToRead(f, off, n) = 0 => off = sizes[f]
<1>1. n \in Nat /\ sizes[f] \in Nat
  BY RequestAssumption, FileAssumption
<1>2. BytesToRead(f, off, n) =
        IF off >= sizes[f] THEN 0 ELSE IF off + n > sizes[f] THEN sizes[f] - off ELSE n
  BY NoWrap DEF BytesToRead
<1> QED BY <1>1, <1>2

(* The array holds every file from its offset on.                          *)
LEMMA DataOfFile ==
  ASSUME NEW f \in File, NEW i \in 1 .. sizes[f]
  PROVE  test_data[FileOffset(f) + i - 1] = Contents(f)[i]
<1>1. sizes[1] \in Nat /\ sizes[2] \in Nat /\ DATA_SIZE \in Nat
      /\ sizes[1] + sizes[2] <= DATA_SIZE
  BY FileAssumption DEF File
<1>2. CASE f = 1
  <2>1. FileOffset(f) + i - 1 = i - 1 /\ i - 1 \in 0 .. (DATA_SIZE - 1) /\ i - 1 < sizes[1]
        /\ (i - 1) + 1 = i
    BY <1>1, <1>2 DEF FileOffset
  <2>2. test_data[i - 1] = Contents(1)[(i - 1) + 1]
    BY <2>1 DEF test_data
  <2> QED BY <1>2, <2>1, <2>2
<1>3. CASE f = 2
  <2> DEFINE a == sizes[1] + i - 1
  <2>1. a \in 0 .. (DATA_SIZE - 1) /\ ~(a < sizes[1]) /\ a < sizes[1] + sizes[2]
        /\ a - sizes[1] + 1 = i /\ FileOffset(f) + i - 1 = a
    BY <1>1, <1>3 DEF FileOffset
  <2> HIDE DEF a
  <2>2. test_data[a] = Contents(2)[a - sizes[1] + 1]
    BY <2>1 DEF test_data
  <2> QED BY <1>3, <2>1, <2>2
<1> QED BY <1>2, <1>3 DEF File

(* A read appends the bytes that follow those the caller has.              *)
LEMMA ReadAppends ==
  ASSUME RdInv, node \in File, NEW n \in Request
  PROVE  LET k == BytesToRead(node, offset, n) IN
         got \o initrd_read(node, offset, n) = [i \in 1 .. (offset + k) |-> Contents(node)[i]]
<1> DEFINE k == BytesToRead(node, offset, n)
           more == initrd_read(node, offset, n)
           all == [i \in 1 .. (offset + k) |-> Contents(node)[i]]
<1>1. offset \in Nat /\ offset <= sizes[node] /\ sizes[node] \in Nat
      /\ got = [i \in 1 .. offset |-> Contents(node)[i]]
  BY FileAssumption DEF RdInv, CountsItsBytes
<1>2. k \in Nat /\ offset + k <= sizes[node]
  BY <1>1, ReadLength
<1>3. more = [i \in 1 .. k |-> test_data[FileOffset(node) + offset + i - 1]]
  BY DEF initrd_read
<1> HIDE DEF k, more
<1>4. ASSUME NEW i \in 1 .. k PROVE more[i] = Contents(node)[offset + i]
  <2>1. offset + i \in 1 .. sizes[node] /\ FileOffset(node) \in Int
    BY <1>1, <1>2, FileAssumption DEF FileOffset, File
  <2>2. FileOffset(node) + offset + i - 1 = FileOffset(node) + (offset + i) - 1
    BY <1>1, <1>2, <2>1
  <2>3. test_data[FileOffset(node) + (offset + i) - 1] = Contents(node)[offset + i]
    BY <2>1, DataOfFile
  <2> QED BY <1>3, <2>2, <2>3
<1> DEFINE Whole == {Contents(node)[i] : i \in 1 .. (offset + k)}
<1>5. got \in Seq(Whole) /\ Len(got) = offset
  <2>1. \A i \in 1 .. offset : Contents(node)[i] \in Whole
    BY <1>1, <1>2
  <2> HIDE DEF Whole
  <2>2. got \in [1 .. offset -> Whole]
    BY <1>1, <2>1
  <2> QED BY <1>1, <2>2, IsASeq, LenProperties
<1>6. more \in Seq(Whole) /\ Len(more) = k
  <2>1. \A i \in 1 .. k : more[i] \in Whole
    <3>1. \A i \in 1 .. k : offset + i \in 1 .. (offset + k)
      BY <1>1, <1>2
    <3> QED BY <1>4, <3>1
  <2> HIDE DEF Whole
  <2>2. more \in [1 .. k -> Whole]
    BY <1>3, <2>1
  <2> QED BY <1>2, <2>2, IsASeq, LenProperties
<1> HIDE DEF Whole
<1>7. got \o more \in Seq(Whole) /\ Len(got \o more) = offset + k
  BY <1>5, <1>6, ConcatProperties
<1>8. all \in Seq({Contents(node)[i] : i \in 1 .. (offset + k)}) /\ Len(all) = offset + k
  <2>1. offset + k \in Nat
    BY <1>1, <1>2
  <2>2. all \in [1 .. (offset + k) -> {Contents(node)[i] : i \in 1 .. (offset + k)}]
    OBVIOUS
  <2> QED BY <2>1, <2>2, IsASeq, LenProperties
<1>9. ASSUME NEW i \in 1 .. (offset + k) PROVE (got \o more)[i] = Contents(node)[i]
  <2>1. CASE i <= offset
    <3>1. (got \o more)[i] = got[i] /\ i \in 1 .. offset
      BY <1>1, <1>2, <1>5, <1>6, <2>1, ConcatProperties
    <3> QED BY <1>1, <3>1
  <2>2. CASE i > offset
    <3>1. i - offset \in 1 .. k /\ offset + (i - offset) = i
      BY <1>1, <1>2, <2>2
    <3>2. (got \o more)[i] = more[i - offset]
      BY <1>1, <1>2, <1>5, <1>6, <2>2, ConcatProperties
    <3> QED BY <1>4, <3>1, <3>2
  <2>3. i <= offset \/ i > offset
    BY <1>1, <1>2
  <2> QED BY <2>1, <2>2, <2>3
<1>10. got \o more = all
  <2>1. DOMAIN (got \o more) = 1 .. (offset + k)
    BY <1>7, LenProperties
  <2>2. \A i \in 1 .. (offset + k) : (got \o more)[i] = all[i]
    BY <1>9
  <2>3. DOMAIN all = 1 .. (offset + k)
    OBVIOUS
  <2>4. Len(got \o more) = Len(all)
    BY <1>7, <1>8
  <2> HIDE DEF all
  <2> QED BY <1>7, <1>8, <2>1, <2>2, <2>4, SeqEqual
<1> QED BY <1>10 DEF more, k

----------------------------------------------------------------------------
LEMMA InitRdInv == Init => RdInv
BY FileAssumption DEF Init, RdInv, NodeIsThere, CountsItsBytes

LEMMA OpenStep ==
  ASSUME RdInv, NEW path \in Path, vfs_open(path)
  PROVE  RdInv'
<1>1. vfs_traverse_path(path) \in File \cup {NULL, ROOT}
      /\ (vfs_traverse_path(path) \in File => num_files = 2)
  <2>1. initrd_finddir(path.name) \in (1 .. num_files) \cup {NULL}
    <3> DEFINE found == {f \in 1 .. num_files : names[f] = path.name}
    <3>1. num_files \in {0, 2}
      BY DEF RdInv, NodeIsThere
    <3>2. ASSUME found # {} PROVE \E f \in found : \A g \in found : f <= g
      <4>1. found \subseteq {1, 2} /\ found # {}
        BY <3>1, <3>2
      <4> HIDE DEF found
      <4>2. CASE 1 \in found
        <5>1. \A g \in found : 1 <= g
          BY <4>1
        <5> QED BY <4>2, <5>1
      <4>3. CASE 1 \notin found
        <5>1. \A g \in found : g = 2
          BY <4>1, <4>3
        <5>2. PICK g : g \in found
          BY <4>1
        <5> QED BY <5>1, <5>2
      <4> QED BY <4>2, <4>3
    <3>3. found # {} => (CHOOSE f \in found : \A g \in found : f <= g) \in found
      <4> HIDE DEF found
      <4> QED BY <3>2
    <3> QED BY <3>3 DEF initrd_finddir
  <2>2. \A f \in 1 .. num_files : f \in File /\ num_files = 2
    BY DEF RdInv, NodeIsThere, File
  <2>3. vfs_root \in {NULL, ROOT}
    BY DEF RdInv, NodeIsThere
  <2>4. CASE vfs_root = NULL
    BY <2>4, FileAssumption DEF vfs_traverse_path
  <2>5. CASE vfs_root # NULL /\ path = Slash
    <3>1. vfs_traverse_path(path) = vfs_root
      BY <2>5 DEF vfs_traverse_path
    <3> QED BY <2>3, <3>1, FileAssumption
  <2>6. CASE vfs_root # NULL /\ path # Slash /\ path.slashes = 2
    <3>1. vfs_traverse_path(path) = NULL
      BY <2>6 DEF vfs_traverse_path
    <3> QED BY <3>1, FileAssumption
  <2>7. CASE vfs_root # NULL /\ path # Slash /\ path.slashes # 2
    <3>1. vfs_traverse_path(path) = initrd_finddir(path.name)
      BY <2>7 DEF vfs_traverse_path
    <3> QED BY <2>1, <2>2, <3>1, FileAssumption
  <2> QED BY <2>4, <2>5, <2>6, <2>7
<1>2. NodeIsThere'
  BY <1>1 DEF vfs_open, RdInv, NodeIsThere
<1>3. CountsItsBytes'
  <2>1. offset' = 0 /\ got' = <<>>
    BY DEF vfs_open
  <2>2. node' \in File => sizes[node'] \in Nat
    BY FileAssumption
  <2>3. [i \in 1 .. 0 |-> Contents(node')[i]] = <<>>
    OBVIOUS
  <2> QED BY <2>1, <2>2, <2>3 DEF CountsItsBytes
<1> QED BY <1>2, <1>3 DEF RdInv

LEMMA ReadStep ==
  ASSUME RdInv, NEW n \in Request, vfs_read(n)
  PROVE  RdInv'
<1>1. num_files' = num_files /\ vfs_root' = vfs_root /\ node' = node
  BY DEF vfs_read
<1>2. NodeIsThere'
  BY <1>1 DEF RdInv, NodeIsThere
<1>3. CASE node \in File
  <2> DEFINE k == BytesToRead(node, offset, n)
  <2>1. node <= num_files
    BY <1>3 DEF RdInv, NodeIsThere, File
  <2>2. got' = got \o initrd_read(node, offset, n) /\ offset' = offset + k
    BY <1>3, <2>1 DEF vfs_read
  <2>3. offset \in Nat /\ offset <= sizes[node]
    BY <1>3 DEF RdInv, CountsItsBytes
  <2>4. k \in Nat /\ offset + k <= sizes[node]
    BY <1>3, <2>3, ReadLength
  <2>5. got' = [i \in 1 .. (offset + k) |-> Contents(node)[i]]
    BY <1>3, <2>2, ReadAppends
  <2> HIDE DEF k
  <2>6. CountsItsBytes'
    BY <1>1, <1>3, <2>2, <2>3, <2>4, <2>5 DEF CountsItsBytes, Contents
  <2> QED BY <1>2, <2>6 DEF RdInv
<1>4. CASE node \notin File
  <2>1. offset' = offset /\ got' = got
    BY <1>4 DEF vfs_read
  <2>2. CountsItsBytes'
    BY <1>1, <1>4, <2>1 DEF RdInv, CountsItsBytes
  <2> QED BY <1>2, <2>2 DEF RdInv
<1> QED BY <1>3, <1>4

LEMMA RdInvStep == RdInv /\ [Next]_vars => RdInv'
<1> SUFFICES ASSUME RdInv, [Next]_vars PROVE RdInv'
  OBVIOUS
<1> DEFINE Others == UNCHANGED <<node, offset, got>> /\ num_files' \in {num_files, 2}
                     /\ vfs_root' \in {NULL, ROOT}
<1>1. Others => RdInv'
  BY DEF RdInv, NodeIsThere, CountsItsBytes, Contents
<1>2. CASE initrd_create
  BY <1>1, <1>2 DEF initrd_create, RdInv, NodeIsThere
<1>3. CASE vfs_init
  BY <1>1, <1>3 DEF vfs_init
<1>4. CASE \E path \in Path : vfs_mount(path)
  BY <1>1, <1>4 DEF vfs_mount, RdInv, NodeIsThere
<1>5. CASE \E path \in Path : vfs_open(path)
  BY <1>5, OpenStep
<1>6. CASE \E n \in Request : vfs_read(n)
  BY <1>6, ReadStep
<1>7. CASE UNCHANGED vars
  BY <1>1, <1>7 DEF vars, RdInv, NodeIsThere
<1> QED BY <1>2, <1>3, <1>4, <1>5, <1>6, <1>7 DEF Next

(* A node that was opened is a file or the root, and the caller never      *)
(* counts past the end (initrd.c:32 clips the last read).                  *)
THEOREM ReadInvariance == Spec => []RdInv
<1>1. Init => RdInv
  BY InitRdInv
<1>2. RdInv /\ [Next]_vars => RdInv'
  BY RdInvStep
<1> QED BY <1>1, <1>2, PTL DEF Spec

LEMMA WholePrefix ==
  ASSUME RdInv, node \in File
  PROVE  Len(got) = offset /\ IsPrefix(got, Contents(node))
<1>1. offset \in Nat /\ offset <= sizes[node] /\ sizes[node] \in Nat
      /\ got = [i \in 1 .. offset |-> Contents(node)[i]]
  BY FileAssumption DEF RdInv, CountsItsBytes
<1> DEFINE c == Contents(node)
           Whole == {c[i] : i \in 1 .. sizes[node]}
<1>2. c \in Seq(Whole) /\ Len(c) = sizes[node]
  <2>1. c \in [1 .. sizes[node] -> Whole]
    BY DEF Contents
  <2> HIDE DEF c, Whole
  <2> QED BY <1>1, <2>1, IsASeq, LenProperties
<1>3. got \in Seq(Whole) /\ Len(got) = offset
  <2>1. \A i \in 1 .. offset : c[i] \in Whole
    BY <1>1
  <2>2. got = [i \in 1 .. offset |-> c[i]]
    BY <1>1
  <2> HIDE DEF c, Whole
  <2>3. got \in [1 .. offset -> Whole]
    BY <2>1, <2>2
  <2> QED BY <1>1, <2>3, IsASeq, LenProperties
<1>4. got = [i \in 1 .. offset |-> c[i]]
  BY <1>1
<1> HIDE DEF c, Whole
<1>5. SubSeq(got, 1, Len(got)) = got /\ SubSeq(c, 1, Len(got)) = got
  BY <1>1, <1>2, <1>3, <1>4
<1>6. IsPrefix(got, c)
  BY <1>1, <1>2, <1>3, <1>5 DEF IsPrefix
<1> QED BY <1>3, <1>6 DEF c

(* Whatever it reads with, the caller has the first bytes of the file it   *)
(* opened, none of the file stored next to it (initrd.c:41).               *)
THEOREM BytesOfThatFile == Spec => []ReadsThatFile
<1>1. RdInv => ReadsThatFile
  BY WholePrefix DEF ReadsThatFile
<1> QED BY <1>1, ReadInvariance, PTL

LEMMA ZeroIsTheEnd ==
  ASSUME RdInv, NEW n \in Request \ {0}, vfs_read(n), node \in File, returned' = 0
  PROVE  got = Contents(node)
<1>1. offset \in Nat /\ offset <= sizes[node] /\ sizes[node] \in Nat
      /\ got = [i \in 1 .. offset |-> Contents(node)[i]]
  BY FileAssumption DEF RdInv, CountsItsBytes
<1>2. BytesToRead(node, offset, n) = 0
  <2>1. node <= num_files
    BY DEF RdInv, NodeIsThere, File
  <2> QED BY <2>1 DEF vfs_read
<1>3. offset = sizes[node]
  BY <1>1, <1>2, ReadLength
<1> QED BY <1>1, <1>3 DEF Contents

(* A caller that stops at the first 0 has the whole file.                  *)
THEOREM EndOnlyAtEnd == Spec => ZeroMeansEnd
<1>1. RdInv /\ [Next]_vars =>
        [\A n \in Request \ {0} :
           vfs_read(n) /\ node \in File /\ returned' = 0 => got = Contents(node)]_vars
  BY ZeroIsTheEnd
<1> QED BY <1>1, ReadInvariance, PTL DEF Spec, ZeroMeansEnd
=============================================================================
