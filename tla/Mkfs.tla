-------------------------------- MODULE Mkfs --------------------------------
(***************************************************************************)
(* mkfs.c, the program that builds the initial file system image.  The     *)
(* image is FSSIZE blocks of BSIZE cells: a cell is a byte of a file, half *)
(* a directory entry or a block address of an indirect block.  `args` are  *)
(* the host files named on the command line: their base name, which is     *)
(* what is left of the argument after a leading '_', and their length;     *)
(* byte k of the i-th is <<i, k>>.  read() may return any part of a block. *)
(* There are inodes for all of them: mkfs does not check their number.     *)
(***************************************************************************)
LOCAL INSTANCE Integers
LOCAL INSTANCE Sequences
LOCAL INSTANCE FiniteSets

CONSTANTS FSSIZE, BSIZE, NDIRECT,
          NMETA,  \* blocks before the first data block
          ARGS    \* the command lines: sequences of [name, length]

VARIABLES args, opened, copied, inode, disk, freeblock, bitmap, status

imageVars == <<args, opened, copied, inode, disk, freeblock, bitmap, status>>

ROOTINO == 1
Dot == -1                     \* the names of the root's own entries
DotDot == -2
NINDIRECT == BSIZE            \* an address is a cell
MAXFILE == NDIRECT + NINDIRECT
Zero == <<0, 0>>
Zeroes == [c \in 0 .. BSIZE - 1 |-> Zero]

(* An inode is a size and addresses; NDIRECT's is the indirect block.      *)
ialloc == [size |-> 0, addrs |-> [i \in 0..NDIRECT |-> 0]]

(* `img` is the state iappend works on: the inode, the disk, the next free *)
(* block, and whether an assertion or a read past the image has ended it.  *)
Alloc(img, i) ==
  IF img.din.addrs[i] # 0 THEN img
  ELSE [img EXCEPT !.din.addrs[i] = img.free, !.free = @ + 1]

\* rsect fails for a block past the image.
Readable(img, x) == [img EXCEPT !.ok = @ /\ x < FSSIZE]

\* Forgets to write back the indirect block.
IndirectUnwritten(img, k) == [Alloc(img, NDIRECT) EXCEPT !.free = @ + 1]

\* The indirect block is written back only when an address was added to it.
Indirect(img, k) ==
  LET a == Readable(Alloc(img, NDIRECT), Alloc(img, NDIRECT).din.addrs[NDIRECT])
      x == a.din.addrs[NDIRECT]
  IN IF ~a.ok \/ a.disk[x][k] # Zero THEN a
     ELSE [a EXCEPT !.disk[x][k] = <<0, a.free>>, !.free = @ + 1]

Mapped(img, fbn) == IF fbn < NDIRECT THEN Alloc(img, fbn) ELSE Indirect(img, fbn - NDIRECT)
BlockOf(img, fbn) ==
  IF fbn < NDIRECT THEN img.din.addrs[fbn] ELSE img.disk[img.din.addrs[NDIRECT]][fbn - NDIRECT][2]

\* One turn of iappend's loop per block the bytes p reach.
RECURSIVE Written(_, _)
Written(img, p) ==
  IF p = <<>> \/ ~img.ok THEN img
  ELSE IF img.din.size \div BSIZE >= MAXFILE THEN [img EXCEPT !.ok = FALSE]
  ELSE LET off == img.din.size
           fbn == off \div BSIZE
           m == Mapped(img, fbn)
           r == IF m.ok THEN Readable(m, BlockOf(m, fbn)) ELSE m
           room == (fbn + 1) * BSIZE - off
           n1 == IF Len(p) < room THEN Len(p) ELSE room
           at == off - fbn * BSIZE
           new == [c \in 0 .. BSIZE - 1 |->
                     IF c \in at .. at + n1 - 1 THEN p[c - at + 1] ELSE r.disk[BlockOf(r, fbn)][c]]
       IN IF ~r.ok THEN r
          ELSE Written([r EXCEPT !.disk[BlockOf(r, fbn)] = new, !.din.size = off + n1],
                       SubSeq(p, n1 + 1, Len(p)))

iappend(inodes, d, f, inum, p) ==
  Written([din |-> inodes[inum], disk |-> d, free |-> f, ok |-> TRUE], p)

\* An entry's cells: the inode number, and the name.
Dirent(inum, name) == << <<inum, 0>>, <<name, 0>> >>

Exit == status' = "failed" /\ UNCHANGED <<args, opened, copied, inode, disk, freeblock, bitmap>>

Write(inodes, inum, img) ==
  /\ inode' = [inodes EXCEPT ![inum] = img.din]
  /\ disk' = img.disk
  /\ freeblock' = img.free
-----------------------------------------------------------------------------
Init ==
  /\ args \in ARGS
  /\ opened = 0 /\ copied = 0
  /\ inode = << >>
  /\ disk = [b \in 0 .. FSSIZE - 1 |-> Zeroes]
  /\ freeblock = NMETA
  /\ bitmap = {}
  /\ status = "begin"

\* The root directory and its two entries.
Root ==
  LET dots == iappend(<<ialloc>>, disk, freeblock, ROOTINO,
                      Dirent(ROOTINO, Dot) \o Dirent(ROOTINO, DotDot))
  IN /\ status = "begin"
     /\ IF dots.ok
        THEN Write(<<ialloc>>, ROOTINO, dots) /\ status' = "files"
             /\ UNCHANGED <<args, opened, copied, bitmap>>
        ELSE Exit

\* The next argument: a new inode, then its entry in the root directory.
Open ==
  LET inodes == inode \o <<ialloc>>
      entry == iappend(inodes, disk, freeblock, ROOTINO,
                       Dirent(Len(inodes), args[opened + 1].name))
  IN /\ status = "files" /\ opened < Len(args)
     /\ opened > 0 => copied = args[opened].length
     /\ IF entry.ok
        THEN /\ Write(inodes, ROOTINO, entry)
             /\ opened' = opened + 1 /\ copied' = 0
             /\ UNCHANGED <<args, bitmap, status>>
        ELSE Exit

\* read() returns cc bytes of the open file, which are appended to its inode.
Copy(cc) ==
  LET file == iappend(inode, disk, freeblock, Len(inode), [k \in 1..cc |-> <<opened, copied + k>>])
  IN /\ status = "files" /\ opened > 0
     /\ copied + cc <= args[opened].length
     /\ IF file.ok
        THEN /\ Write(inode, Len(inode), file)
             /\ copied' = copied + cc
             /\ UNCHANGED <<args, opened, bitmap, status>>
        ELSE Exit

\* The root's size becomes a multiple of BSIZE, and balloc marks the blocks used.
Finish ==
  /\ status = "files" /\ opened = Len(args)
  /\ opened > 0 => copied = args[opened].length
  /\ inode' = [inode EXCEPT ![ROOTINO].size = (@ \div BSIZE + 1) * BSIZE]
  /\ bitmap' = 0 .. freeblock - 1
  /\ status' = "done"
  /\ UNCHANGED <<args, opened, copied, disk, freeblock>>

Next == Root \/ Open \/ (\E cc \in 1..BSIZE : Copy(cc)) \/ Finish

Spec == Init /\ [][Next]_imageVars
-----------------------------------------------------------------------------
Blocks(n) == (n + BSIZE - 1) \div BSIZE
Addr(ino, fbn) ==
  IF fbn < NDIRECT THEN ino.addrs[fbn]
  ELSE IF ino.addrs[NDIRECT] = 0 THEN 0 ELSE disk[ino.addrs[NDIRECT]][fbn - NDIRECT][2]
Bytes(ino, n) == [k \in 1..n |-> disk[Addr(ino, (k - 1) \div BSIZE)][(k - 1) % BSIZE]]

\* The blocks an image with these files needs, one more for an indirect block.
Needed(n) == Blocks(n) + IF Blocks(n) > NDIRECT THEN 1 ELSE 0
Entries == 2 * (2 + Len(args))
Files == 1..Len(args)
RECURSIVE Total(_)
Total(i) == IF i = 0 THEN Needed(Entries) ELSE Needed(args[i].length) + Total(i - 1)

Owned == {<<i, f>> \in (1..Len(inode)) \X (0 .. MAXFILE - 1) : Addr(inode[i], f) # 0}
Indirects == {i \in 1..Len(inode) : inode[i].addrs[NDIRECT] # 0}

FileStored(i) ==
  /\ inode[i + 1].size = args[i].length
  /\ Bytes(inode[i + 1], args[i].length) = [k \in 1 .. args[i].length |-> <<i, k>>]

(* The image mkfs leaves is one the kernel can use: iappend has stored     *)
(* every file's bytes where the kernel's bmap looks for them, the root     *)
(* directory lists ".", ".." and every file under the inode that holds it, *)
(* no block is used twice, and the bitmap marks the metadata and exactly   *)
(* the blocks in use, so balloc never hands one of them out.  The root's   *)
(* rounded size covers its entries and exceeds its blocks by one block     *)
(* only where the entries fill their blocks.  mkfs gives up only for files *)
(* that do not fit the image or are longer than MAXFILE blocks.            *)
ImageSound ==
  /\ status = "done" =>
       LET root == inode[ROOTINO] IN
       /\ Len(inode) = 1 + Len(args)
       /\ \A i \in Files : FileStored(i)
       /\ Bytes(root, 4) = Dirent(ROOTINO, Dot) \o Dirent(ROOTINO, DotDot)
       /\ \A i \in Files : SubSeq(Bytes(root, Entries), 2 * i + 3, 2 * i + 4) = Dirent(i + 1, args[i].name)
       /\ root.size % BSIZE = 0 /\ root.size \in Entries .. Entries + BSIZE
       /\ \A f \in 0 .. root.size \div BSIZE - 1 : Addr(root, f) = 0 => f * BSIZE = Entries
       /\ bitmap = 0 .. NMETA - 1 \cup {Addr(inode[o[1]], o[2]) : o \in Owned}
                                  \cup {inode[i].addrs[NDIRECT] : i \in Indirects}
       /\ Cardinality(bitmap) = NMETA + Cardinality(Owned) + Cardinality(Indirects)
       /\ bitmap \subseteq 0 .. FSSIZE - 1
  /\ status = "failed" =>
       \/ \E n \in {Entries} \cup {args[i].length : i \in Files} : Blocks(n) > MAXFILE
       \/ NMETA + Total(Len(args)) > FSSIZE
=============================================================================
