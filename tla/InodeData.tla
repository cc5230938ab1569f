------------------------------ MODULE InodeData ------------------------------
(***************************************************************************)
(* What files contain: the block allocator, bmap, itrunc, readi and writei *)
(* of xv6/fs.c under fileread and filewrite of xv6/file.c, for processes   *)
(* that write to files of the same and of different inodes.                *)
(*                                                                         *)
(* An inode is locked for one writei(), and each turn of its loop is a     *)
(* step: the blocks it allocates compete with those of other inodes.       *)
(* Blocks hold BSIZE bytes, or the numbers of NINDIRECT = BSIZE blocks.    *)
(***************************************************************************)
LOCAL INSTANCE Integers
LOCAL INSTANCE Sequences
LOCAL INSTANCE FiniteSets
LOCAL INSTANCE FiniteSetsExt

CONSTANTS Writer,       \* processes; also the byte that each of them writes
          File,         \* open files
          NINODES,
          NBLOCKS,      \* data blocks of the disk
          BSIZE, NDIRECT,
          MAXOPBLOCKS,  \* blocks a transaction may log
          Lengths,      \* the numbers of bytes that are read and written
          MaxWrites,    \* bound on the calls of filewrite()
          MaxTrunc      \* bound on the number of times an inode is reused

NINDIRECT == BSIZE
MAXFILE == NDIRECT + NINDIRECT
WORD == 16                        \* range of a uint; int is its lower half
InoOf == [f \in File |-> 1 + (f % NINODES)]

VARIABLES
  used,    \* the bitmap: blocks that are allocated
  block,   \* the contents of the blocks
  addrs,   \* ip->addrs: NDIRECT direct blocks and the indirect one
  size,    \* ip->size
  off,     \* f->off
  lock,    \* holder of ip->lock, 0 if free
  job,     \* filewrite() of each process
  loggedBlocks,  \* what the transaction of the process has logged: blocks,
                 \* 0 for the bitmap and -1 for the inode
  shadow,  \* what the file should contain
  writes, truncs

fileVars == <<used, block, addrs, size, off, lock, job, loggedBlocks, shadow, writes, truncs>>

Ino == 1..NINODES
Block == 1..NBLOCKS
NoJob == [st |-> "idle", f |-> 0, n |-> 0, i |-> 0, n1 |-> 0, tot |-> 0]
Zeros == [k \in 0..BSIZE-1 |-> 0]

Init ==
  /\ used = {} /\ block = [b \in Block |-> Zeros]
  /\ addrs = [i \in Ino |-> [k \in 0..NDIRECT |-> 0]]
  /\ size = [i \in Ino |-> 0] /\ off = [f \in File |-> 0]
  /\ lock = [i \in Ino |-> 0] /\ job = [p \in Writer |-> NoJob]
  /\ loggedBlocks = [p \in Writer |-> {}]
  /\ shadow = [i \in Ino |-> <<>>] /\ writes = 0 /\ truncs = 0

-----------------------------------------------------------------------------
\* The state of the disk that bmap() works on; got is the block of the last
\* balloc(), 0 after its panic.
Store(u, b, a) == [used |-> u, block |-> b, addrs |-> a, log |-> {}, got |-> -1]
OutOfBlocks(s) == s.got = 0

\* Faulty: the allocated block keeps what it contained.
ballocDirty(s) ==
  IF Block \ s.used = {} THEN [s EXCEPT !.got = 0]
  ELSE LET b == Min(Block \ s.used)
       IN  [s EXCEPT !.used = @ \cup {b}, !.log = @ \cup {b, 0}, !.got = b]

\* balloc(): the first free block, marked in use and zeroed, or panic().
balloc(s) ==
  IF Block \ s.used = {} THEN [s EXCEPT !.got = 0]
  ELSE LET b == Min(Block \ s.used)
       IN  [s EXCEPT !.used = @ \cup {b}, !.block[b] = Zeros, !.log = @ \cup {b, 0}, !.got = b]

\* bmap(): the nth block of the inode, allocated if there is none, and the
\* indirect block too, which stays if no block is left for the other.
bmapDirect(s, bn) ==
  LET t == balloc(s)
  IN  CASE s.addrs[bn] # 0 -> s
        [] s.addrs[bn] = 0 /\ OutOfBlocks(t) -> t
        [] OTHER -> [t EXCEPT !.addrs[bn] = t.got]
bmapIndirect(s, bn) ==
  LET t == bmapDirect(s, NDIRECT)
      a == t.addrs[NDIRECT]
      u == balloc(t)
  IN  CASE OutOfBlocks(t) \/ t.block[a][bn] # 0 -> t
        [] ~OutOfBlocks(t) /\ t.block[a][bn] = 0 /\ OutOfBlocks(u) -> u
        [] OTHER -> [u EXCEPT !.block[a][bn] = u.got, !.log = @ \cup {a}]
bmap(s, bn) == IF bn < NDIRECT THEN bmapDirect(s, bn) ELSE bmapIndirect(s, bn - NDIRECT)
BlockNo(s, bn) == IF bn < NDIRECT THEN s.addrs[bn] ELSE s.block[s.addrs[NDIRECT]][bn - NDIRECT]

\* bfree() of the blocks bs.
bfree(bs) == used \ bs

\* itrunc(): the blocks of an inode.
Indirect(i) == IF addrs[i][NDIRECT] = 0 THEN {} ELSE {block[addrs[i][NDIRECT]][k] : k \in 0..NINDIRECT-1}
BlocksOf(i) == ({addrs[i][k] : k \in 0..NDIRECT} \cup Indirect(i)) \ {0}

\* The bytes of an inode, as readi() finds them.
Here(i) == Store(used, block, addrs[i])
Bytes(i) == [k \in 1..size[i] |-> block[BlockNo(Here(i), (k - 1) \div BSIZE)][(k - 1) % BSIZE]]

\* readi(): how many bytes a read at offset o gets, -1 if it fails.
readi(i, o, n) ==
  IF o > size[i] \/ (o + n) % WORD < o THEN -1
  ELSE IF (o + n) % WORD > size[i] THEN size[i] - o ELSE n

\* writei()'s tests: n, or -1 if the bytes do not fit.
writei(i, o, n) == IF o > size[i] \/ (o + n) % WORD < o \/ (o + n) % WORD > MAXFILE * BSIZE
                     THEN -1 ELSE n

-----------------------------------------------------------------------------
\* fileread() of n bytes.
fileread(f, n) ==
  /\ lock[InoOf[f]] = 0
  /\ readi(InoOf[f], off[f], n) > 0
  /\ off' = [off EXCEPT ![f] = @ + readi(InoOf[f], off[f], n)]
  /\ UNCHANGED <<used, block, addrs, size, lock, job, loggedBlocks, shadow, writes, truncs>>

\* A process calls filewrite().
filewrite(p, f, n) ==
  /\ job[p].st = "idle" /\ writes < MaxWrites
  /\ writes' = writes + 1
  /\ job' = [job EXCEPT ![p] = [NoJob EXCEPT !.st = "chunk", !.f = f, !.n = n]]
  /\ UNCHANGED <<used, block, addrs, size, off, lock, loggedBlocks, shadow, truncs>>

\* The bytes of the next writei(): few enough for one transaction.
Chunk(p) ==
  LET max == ((MAXOPBLOCKS - 1 - 1 - 2) \div 2) * BSIZE
  IN  Min({job[p].n - job[p].i, max})

\* begin_op(), ilock() and the tests of writei(); a failed write ends the loop.
BeginChunk(p) ==
  LET i == InoOf[job[p].f]
      n1 == Chunk(p)
  IN  /\ job[p].st = "chunk" /\ lock[i] = 0
      /\ IF writei(i, off[job[p].f], n1) < 0
           THEN job' = [job EXCEPT ![p] = NoJob] /\ UNCHANGED lock
           ELSE /\ job' = [job EXCEPT ![p].st = "copy", ![p].n1 = n1, ![p].tot = 0]
                /\ lock' = [lock EXCEPT ![i] = p]
      /\ loggedBlocks' = [loggedBlocks EXCEPT ![p] = {}]
      /\ UNCHANGED <<used, block, addrs, size, off, shadow, writes, truncs>>

\* One turn of writei()'s loop: the part of the write that falls in one block.
\* If the disk is full, balloc() panics there: the process keeps the lock and
\* its transaction, and others run until they print.
CopyBlock(p) ==
  LET i == InoOf[job[p].f]
      o == off[job[p].f] + job[p].tot
      at == o % BSIZE
      m == Min({job[p].n1 - job[p].tot, BSIZE - at})
      s == bmap(Here(i), o \div BSIZE)
      b == BlockNo(s, o \div BSIZE)
  IN  /\ job[p].st = "copy" /\ job[p].tot < job[p].n1
      /\ used' = s.used
      /\ addrs' = [addrs EXCEPT ![i] = s.addrs]
      /\ IF OutOfBlocks(s)
           THEN /\ block' = s.block
                /\ loggedBlocks' = [loggedBlocks EXCEPT ![p] = @ \cup s.log]
                /\ job' = [job EXCEPT ![p].st = "panic"]
           ELSE /\ block' = [s.block EXCEPT ![b] = [k \in 0..BSIZE-1 |->
                               IF k \in at .. at + m - 1 THEN p ELSE @[k]]]
                /\ loggedBlocks' = [loggedBlocks EXCEPT ![p] = @ \cup s.log \cup {b}]
                /\ job' = [job EXCEPT ![p].tot = @ + m]
      /\ UNCHANGED <<size, off, lock, shadow, writes, truncs>>

\* The end of writei() and of the turn of filewrite()'s loop.
EndChunk(p) ==
  LET f == job[p].f
      i == InoOf[f]
      o == off[f] + job[p].n1
      new == [k \in 1..Max({size[i], o}) |-> IF k > off[f] /\ k <= o THEN p ELSE shadow[i][k]]
  IN  /\ job[p].st = "copy" /\ job[p].tot = job[p].n1
      /\ size' = [size EXCEPT ![i] = Max({@, o})]
      /\ loggedBlocks' = [loggedBlocks EXCEPT ![p] = IF o > size[i] THEN @ \cup {-1} ELSE @]
      /\ off' = [off EXCEPT ![f] = o]
      /\ lock' = [lock EXCEPT ![i] = 0]
      /\ shadow' = [shadow EXCEPT ![i] = new]
      /\ job' = [job EXCEPT ![p] = IF job[p].i + job[p].n1 = job[p].n THEN NoJob
                                   ELSE [job[p] EXCEPT !.st = "chunk", !.i = @ + job[p].n1]]
      /\ UNCHANGED <<used, block, addrs, writes, truncs>>

\* itrunc() by the last iput() of an unlinked file, and the inode's next use.
itrunc(i) ==
  /\ truncs < MaxTrunc /\ lock[i] = 0 /\ size[i] > 0
  /\ \A p \in Writer : job[p].st # "idle" => InoOf[job[p].f] # i
  /\ used' = bfree(BlocksOf(i))
  /\ addrs' = [addrs EXCEPT ![i] = [k \in 0..NDIRECT |-> 0]]
  /\ size' = [size EXCEPT ![i] = 0]
  /\ off' = [f \in File |-> IF InoOf[f] = i THEN 0 ELSE off[f]]
  /\ shadow' = [shadow EXCEPT ![i] = <<>>]
  /\ truncs' = truncs + 1
  /\ UNCHANGED <<block, lock, job, loggedBlocks, writes>>

Next ==
  \/ \E p \in Writer : BeginChunk(p) \/ CopyBlock(p) \/ EndChunk(p)
  \/ \E p \in Writer, f \in File, n \in Lengths : filewrite(p, f, n)
  \/ \E f \in File, n \in Lengths : fileread(f, n)
  \/ \E i \in Ino : itrunc(i)

-----------------------------------------------------------------------------
\* A file contains what was written to it, in the order of the writei() calls,
\* whatever writes went on in other files (fs.c:482-511).  Under a writei() that
\* is on its way, or stopped because the disk was full (fs.c:77), this is true of
\* the bytes that it does not write, and the size is still the old one.
ContentExact ==
  \A i \in Ino :
    LET p == lock[i]
        o == off[job[p].f]
        written == IF p = 0 THEN {} ELSE o + 1 .. o + job[p].n1
    IN  /\ size[i] = Len(shadow[i])
        /\ \A k \in 1..size[i] : k \notin written => Bytes(i)[k] = shadow[i][k]

\* Every block in use belongs to one place of one inode, and every block of an
\* inode is in use: nothing is shared, lost or free and in use (fs.c:56-95,
\* 373-435).
BlocksOwned ==
  /\ \A i, j \in Ino : i # j => BlocksOf(i) \cap BlocksOf(j) = {}
  /\ UNION {BlocksOf(i) : i \in Ino} = used
  /\ \A i \in Ino : lock[i] = 0 =>
       Cardinality(BlocksOf(i)) = (size[i] + BSIZE - 1) \div BSIZE
                                    + (IF size[i] > NDIRECT * BSIZE THEN 1 ELSE 0)

\* A transaction of filewrite() logs no more blocks than begin_op() reserves
\* for it (file.c:127-133), the indirect block and unaligned ends included.
TransactionFits == \A p \in Writer : Cardinality(loggedBlocks[p]) <= MAXOPBLOCKS

\* The three.
FilesKeepBytes == ContentExact /\ BlocksOwned /\ TransactionFits
=============================================================================
