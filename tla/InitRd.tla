------------------------------- MODULE InitRd -------------------------------
(***************************************************************************)
(* The virtual file system (vfs.c) over the initial RAM disk (initrd.c),   *)
(* and a caller that opens a path and reads on from where its last read    *)
(* ended, with buffers of any size.  A node keeps no position: vfs_read    *)
(* takes the offset, so the caller counts.  vfs_open returns the node      *)
(* itself, which a later vfs_init or vfs_mount does not touch.             *)
(*                                                                         *)
(* The RAM disk is one array with the files one after the other; a byte of *)
(* it is <<file, position>>, so that a byte of the wrong file shows.       *)
(***************************************************************************)
EXTENDS Integers, SequencesExt

CONSTANTS
  Name,                 \* file names
  names, sizes,         \* of the two files initrd_create makes
  DATA_SIZE,            \* bytes of test_data
  Request,              \* buffer sizes of the caller
  WIDTH,                \* bits of size_t and uint64_t
  NULL, ROOT            \* no node, and initrd_root

File == {1, 2}

(* Both files fit into test_data, which nothing in the code tests.         *)
ASSUME FileAssumption ==
  /\ sizes \in [File -> Nat \ {0}] /\ names \in [File -> Name]
  /\ DATA_SIZE \in Nat /\ sizes[1] + sizes[2] <= DATA_SIZE
  /\ NULL \notin File \cup {ROOT} /\ ROOT \notin File

(* offset + size does not wrap for a caller that starts at 0 and whose     *)
(* buffers fit in memory.                                                  *)
ASSUME RequestAssumption ==
  /\ WIDTH \in Nat
  /\ Request \subseteq Nat
  /\ \A f \in File, n \in Request : sizes[f] + n < 2 ^ WIDTH

VARIABLES
  num_files,            \* of initrd_fs, 0 before initrd_create
  vfs_root,             \* ROOT or NULL
  node,                 \* what the caller's last vfs_open returned
  offset, got,          \* bytes the caller has read since, and which
  returned              \* by its last vfs_read

vars == <<num_files, vfs_root, node, offset, got, returned>>

(* A path: its leading slashes, and the rest, "" for none.                 *)
Path == [slashes : 0 .. 2, name : Name \cup {""}]
Slash == [slashes |-> 1, name |-> ""]

----------------------------------------------------------------------------
(* initrd.c. *)

(* Fault: the second file's offset is not set.                            *)
FileOffsetStays(f) == 0

(* file->offset. *)
FileOffset(f) == IF f = 1 THEN 0 ELSE sizes[1]

(* Byte i of file f, and what a file consists of.                          *)
Contents(f) == [i \in 1 .. sizes[f] |-> <<f, i>>]
Zero == <<0, 0>>

(* The files are copied to the start and to the end of the first; the rest *)
(* of a static array is zero.                                              *)
test_data ==
  [a \in 0 .. (DATA_SIZE - 1) |->
     IF a < sizes[1] THEN Contents(1)[a + 1]
     ELSE IF a < sizes[1] + sizes[2] THEN Contents(2)[a - sizes[1] + 1] ELSE Zero]

(* Fault: a read that ends at the last byte stops one short of it.         *)
ClipsShort(f, off, n) ==
  IF off >= sizes[f] THEN 0
  ELSE IF (off + n) % 2 ^ WIDTH >= sizes[f] THEN sizes[f] - off - 1 ELSE n

(* bytes_to_read of initrd_read.                                           *)
BytesToRead(f, off, n) ==
  IF off >= sizes[f] THEN 0
  ELSE IF (off + n) % 2 ^ WIDTH > sizes[f] THEN sizes[f] - off ELSE n

(* What memcpy copies.                                                     *)
initrd_read(f, off, n) ==
  [i \in 1 .. BytesToRead(f, off, n) |-> test_data[FileOffset(f) + off + i - 1]]

(* The first file of that name.                                            *)
initrd_finddir(name) ==
  LET found == {f \in 1 .. num_files : names[f] = name}
  IN  IF found = {} THEN NULL ELSE CHOOSE f \in found : \A g \in found : f <= g

----------------------------------------------------------------------------
(* vfs.c. *)

(* One leading slash is dropped; "/x" of "//x" is not a file's name.       *)
vfs_traverse_path(path) ==
  CASE vfs_root = NULL                                      -> NULL
    [] vfs_root # NULL /\ path = Slash                      -> vfs_root
    [] vfs_root # NULL /\ path # Slash /\ path.slashes = 2  -> NULL
    [] vfs_root # NULL /\ path # Slash /\ path.slashes # 2  -> initrd_finddir(path.name)

initrd_create ==
  /\ num_files' = 2
  /\ UNCHANGED <<vfs_root, node, offset, got, returned>>

vfs_init ==
  /\ vfs_root' = NULL
  /\ UNCHANGED <<num_files, node, offset, got, returned>>

(* Any path but "/" is ignored.                                            *)
vfs_mount(path) ==
  /\ num_files > 0
  /\ vfs_root' = IF path = Slash THEN ROOT ELSE vfs_root
  /\ UNCHANGED <<num_files, node, offset, got, returned>>

vfs_open(path) ==
  /\ node' = vfs_traverse_path(path)
  /\ offset' = 0 /\ got' = <<>> /\ returned' = 0
  /\ UNCHANGED <<num_files, vfs_root>>

(* A directory has no read.                                                *)
vfs_read(n) ==
  /\ IF node \in File /\ node <= num_files
     THEN LET bytes == initrd_read(node, offset, n)
          IN  /\ got' = got \o bytes
              /\ returned' = BytesToRead(node, offset, n)
              /\ offset' = offset + returned'
     ELSE returned' = -1 /\ UNCHANGED <<offset, got>>
  /\ UNCHANGED <<num_files, vfs_root, node>>

----------------------------------------------------------------------------
Init ==
  /\ num_files = 0 /\ vfs_root = NULL
  /\ node = NULL /\ offset = 0 /\ got = <<>> /\ returned = 0

Next ==
  \/ initrd_create \/ vfs_init
  \/ \E path \in Path : vfs_mount(path) \/ vfs_open(path)
  \/ \E n \in Request : vfs_read(n)

Spec == Init /\ [][Next]_vars

----------------------------------------------------------------------------
(* Properties. *)

(* Whatever buffers it reads with, the caller has a prefix of the file it  *)
(* opened, as long as it counts, and no byte of the file stored next to it.*)
ReadsThatFile == node \in File => Len(got) = offset /\ IsPrefix(got, Contents(node))

(* A read into a non-empty buffer returns 0 only at the end, with the      *)
(* whole file read.                                                        *)
ZeroMeansEnd ==
  [][\A n \in Request \ {0} :
       vfs_read(n) /\ node \in File /\ returned' = 0 => got = Contents(node)]_vars

=============================================================================
