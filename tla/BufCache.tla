------------------------------ MODULE BufCache ------------------------------
(***************************************************************************)
(* xv6/bio.c and xv6/ide.c: the buffer cache and the disk driver below it, *)
(* used by processes that read blocks, write them at once (bwrite) or pin  *)
(* them for the log (log_write).                                           *)
(*                                                                         *)
(* bcache.lock and idelock are atomic (SpinLock.tla), b->lock is an owner  *)
(* (SleepLock.tla).  What a process does under a spin lock is one step.  A *)
(* member of Proc holds one buffer at a time: a process that holds two is  *)
(* two of them.  The disk makes no errors (idewait).                       *)
(***************************************************************************)
EXTENDS Naturals, Sequences, FiniteSets, Functions

CONSTANTS Proc, Block, Val, Buf,   \* Buf: the NBUF buffers
          NoProc, NoBlock, NoBuf, NoCmd,
          MaxPinned                \* blocks the log pins at a time, at most

ASSUME BufAssumption ==
  /\ NoProc \notin Proc /\ NoBlock \notin Block /\ NoBuf \notin Buf
  /\ IsFiniteSet(Proc) /\ IsFiniteSet(Buf) /\ Val # {}
  /\ NoCmd \notin [block : Block, write : BOOLEAN, data : Val]
  /\ MaxPinned \in Nat

VARIABLES
  disk,      \* the blocks
  blockno, valid, dirty, refcnt, data,   \* the fields of struct buf
  holder,    \* owner of b->lock
  mru,       \* the list of buffers from bcache.head.next on
  idequeue,  \* the requests; the disk works on the first
  cmd,       \* the command the disk works on
  pc, arg, b,  \* where a process is, the block it asked for, its buffer
  current    \* what was last put in a block, by anybody

bufs == <<blockno, valid, dirty, refcnt, data>>
vars == <<disk, bufs, holder, mru, idequeue, cmd, pc, arg, b, current>>

TypeOK ==
  /\ disk \in [Block -> Val] /\ current \in [Block -> Val]
  /\ blockno \in [Buf -> Block \cup {NoBlock}]
  /\ valid \in [Buf -> BOOLEAN] /\ dirty \in [Buf -> BOOLEAN]
  /\ refcnt \in [Buf -> Nat]
  /\ data \in [Buf -> Val]
  /\ cmd \in [block : Block, write : BOOLEAN, data : Val] \cup {NoCmd}
  /\ holder \in [Buf -> Proc \cup {NoProc}]
  /\ mru \in [1..Len(mru) -> Buf] /\ Range(mru) = Buf /\ IsInjective(mru)
  /\ idequeue \in Seq(Buf)
  /\ pc \in [Proc -> {"idle", "lock", "bread", "iderw", "have", "brelse", "panic"}]
  /\ arg \in [Proc -> Block \cup {NoBlock}]
  /\ b \in [Proc -> Buf \cup {NoBuf}]

\* binit(): the buffers are static data, all zero, for no block of the disk.
Init ==
  /\ disk \in [Block -> Val] /\ current = disk
  /\ blockno = [x \in Buf |-> NoBlock]
  /\ valid = [x \in Buf |-> FALSE] /\ dirty = [x \in Buf |-> FALSE]
  /\ refcnt = [x \in Buf |-> 0]
  /\ data = [x \in Buf |-> CHOOSE v \in Val : TRUE]
  /\ cmd = NoCmd
  /\ holder = [x \in Buf |-> NoProc]
  /\ mru = CHOOSE f \in Bijection(1..Cardinality(Buf), Buf) : TRUE
  /\ idequeue = <<>>
  /\ pc = [p \in Proc |-> "idle"]
  /\ arg = [p \in Proc |-> NoBlock]
  /\ b = [p \in Proc |-> NoBuf]

GoTo(p, label) == pc' = [pc EXCEPT ![p] = label]

\* What the log has pinned: B_DIRTY, and not on its way to the disk.
Pinned == {x \in Buf : dirty[x] /\ x \notin Range(idequeue)}

-----------------------------------------------------------------------------
\* Faulty: the test of B_DIRTY is forgotten.
UnusedDirty == {x \in Buf : refcnt[x] = 0}

\* The buffers bget() may recycle.
Unused == {x \in Buf : refcnt[x] = 0 /\ ~dirty[x]}

\* The last buffer of the list, the least recently used, that is in S.
LeastRecent(S) == mru[CHOOSE i \in 1..Len(mru) :
                        mru[i] \in S /\ \A j \in i+1..Len(mru) : mru[j] \notin S]

\* bget() under bcache.lock: the buffer of the block, a recycled one, or panic.
Bget(p, k) ==
  LET cached == {x \in Buf : blockno[x] = k} IN
  /\ pc[p] = "idle"
  /\ arg' = [arg EXCEPT ![p] = k]
  /\ \/ \E x \in cached :
          /\ refcnt' = [refcnt EXCEPT ![x] = @ + 1]
          /\ b' = [b EXCEPT ![p] = x]
          /\ GoTo(p, "lock")
          /\ UNCHANGED <<blockno, valid, dirty>>
     \/ /\ cached = {}
        /\ IF Unused = {}
             THEN GoTo(p, "panic") /\ UNCHANGED <<blockno, valid, dirty, refcnt, b>>
             ELSE LET x == LeastRecent(Unused) IN
                  /\ blockno' = [blockno EXCEPT ![x] = k]
                  /\ valid' = [valid EXCEPT ![x] = FALSE]
                  /\ dirty' = [dirty EXCEPT ![x] = FALSE]
                  /\ refcnt' = [refcnt EXCEPT ![x] = 1]
                  /\ b' = [b EXCEPT ![p] = x]
                  /\ GoTo(p, "lock")
  /\ UNCHANGED <<disk, data, holder, mru, idequeue, cmd, current>>

\* acquiresleep(&b->lock), and bread()'s test of B_VALID.
BgetLock(p) ==
  /\ pc[p] = "lock" /\ holder[b[p]] = NoProc
  /\ holder' = [holder EXCEPT ![b[p]] = p]
  /\ GoTo(p, IF valid[b[p]] THEN "have" ELSE "bread")
  /\ UNCHANGED <<disk, bufs, mru, idequeue, cmd, arg, b, current>>

\* idestart(): the command, and the data of a write, go to the disk.
IdeStart(x, d, dat) == cmd' = [block |-> blockno[x], write |-> d[x], data |-> dat[x]]

\* iderw(), with the buffers' B_DIRTY d and data dat: append b, start it if it is
\* the first, and sleep (pc "iderw").  Nothing to do is a panic.
IdeRw(p, d, dat) ==
  LET x == b[p] IN
  IF valid[x] /\ ~d[x]
    THEN GoTo(p, "panic") /\ UNCHANGED <<idequeue, cmd>>
    ELSE /\ idequeue' = Append(idequeue, x)
         /\ IF idequeue = <<>> THEN IdeStart(x, d, dat) ELSE UNCHANGED cmd
         /\ GoTo(p, "iderw")

\* bread() of a buffer that is not valid.
Bread(p) ==
  /\ pc[p] = "bread"
  /\ IdeRw(p, dirty, data)
  /\ UNCHANGED <<disk, bufs, holder, mru, arg, b, current>>

\* The holder changes the data and calls bwrite() ...
Bwrite(p, v) ==
  /\ pc[p] = "have"
  /\ data' = [data EXCEPT ![b[p]] = v]
  /\ current' = [current EXCEPT ![arg[p]] = v]
  /\ dirty' = [dirty EXCEPT ![b[p]] = TRUE]
  /\ IdeRw(p, dirty', data')
  /\ UNCHANGED <<disk, blockno, valid, refcnt, holder, mru, arg, b>>

\* ... or log_write(), which sets B_DIRTY and no more, and brelse().
LogWrite(p, v) ==
  /\ pc[p] = "have"
  /\ dirty[b[p]] \/ Cardinality(Pinned) < MaxPinned
  /\ data' = [data EXCEPT ![b[p]] = v]
  /\ current' = [current EXCEPT ![arg[p]] = v]
  /\ dirty' = [dirty EXCEPT ![b[p]] = TRUE]
  /\ holder' = [holder EXCEPT ![b[p]] = NoProc]
  /\ GoTo(p, "brelse")
  /\ UNCHANGED <<disk, blockno, valid, refcnt, mru, idequeue, cmd, arg, b>>

\* ideintr() starts the next request, if there is one.
NextCmd(rest, d) ==
  IF rest = <<>> THEN cmd' = NoCmd ELSE IdeStart(rest[1], d, data)

\* The disk has done its command and interrupts: ideintr() takes the first
\* request off the queue, gets the data of a read, sets B_VALID, clears B_DIRTY,
\* and wakes whoever waits for the buffer.
IdeIntr ==
  LET x == Head(idequeue)
      d == [dirty EXCEPT ![x] = FALSE]
  IN
  /\ cmd # NoCmd
  /\ disk' = IF cmd.write THEN [disk EXCEPT ![cmd.block] = cmd.data] ELSE disk
  /\ data' = IF dirty[x] THEN data ELSE [data EXCEPT ![x] = disk[cmd.block]]
  /\ valid' = [valid EXCEPT ![x] = TRUE]
  /\ dirty' = d
  /\ idequeue' = Tail(idequeue)
  /\ NextCmd(Tail(idequeue), d)
  /\ UNCHANGED <<blockno, refcnt, holder, mru, pc, arg, b, current>>

\* iderw()'s while ends: the process has its buffer.
IdeDone(p) ==
  /\ pc[p] = "iderw" /\ valid[b[p]] /\ ~dirty[b[p]]
  /\ GoTo(p, "have")
  /\ UNCHANGED <<disk, bufs, holder, mru, idequeue, cmd, arg, b, current>>

\* brelse(): releasesleep() ...
Brelse(p) ==
  /\ pc[p] = "have"
  /\ holder' = [holder EXCEPT ![b[p]] = NoProc]
  /\ GoTo(p, "brelse")
  /\ UNCHANGED <<disk, bufs, mru, idequeue, cmd, arg, b, current>>

\* b->refcnt--.
Drop(x) == refcnt[x] - 1

\* Where the list has a buffer.
Place(x) == CHOOSE i \in 1..Len(mru) : mru[i] = x

\* The list with x unlinked and put behind bcache.head.
ToHead(x) ==
  [i \in 1..Len(mru) |->
     IF i = 1 THEN x ELSE IF i <= Place(x) THEN mru[i - 1] ELSE mru[i]]

\* ... then, under bcache.lock, refcnt--, and to the head of the list at 0.
BrelseList(p) ==
  /\ pc[p] = "brelse"
  /\ refcnt' = [refcnt EXCEPT ![b[p]] = Drop(b[p])]
  /\ mru' = IF Drop(b[p]) = 0 THEN ToHead(b[p]) ELSE mru
  /\ b' = [b EXCEPT ![p] = NoBuf] /\ arg' = [arg EXCEPT ![p] = NoBlock]
  /\ GoTo(p, "idle")
  /\ UNCHANGED <<disk, blockno, valid, dirty, data, holder, idequeue, cmd, current>>

Step(p) == BgetLock(p) \/ Bread(p) \/ IdeDone(p) \/ BrelseList(p)

Next ==
  \/ \E p \in Proc : Step(p) \/ Brelse(p)
  \/ \E p \in Proc, k \in Block : Bget(p, k)
  \/ \E p \in Proc, v \in Val : Bwrite(p, v) \/ LogWrite(p, v)
  \/ IdeIntr

Spec == Init /\ [][Next]_vars

-----------------------------------------------------------------------------
\* bread() returns what was last put in the block: no write, pinned or on its way
\* to the disk, is lost to the recycling of bget() or to the order of the queue.
ReadsLatest == \A p \in Proc : pc[p] = "have" => data[b[p]] = current[arg[p]]

\* bget()'s search and recycling are one critical section: a block has one buffer
\* at most, and nobody's buffer becomes that of another block while they wait for
\* its lock, or for the disk.
BuffersStay ==
  /\ \A x, y \in Buf : blockno[x] = blockno[y] /\ blockno[x] # NoBlock => x = y
  /\ \A p \in Proc : b[p] # NoBuf => blockno[b[p]] = arg[p]

\* With a buffer per process beside the pinned ones bget() finds one ("bget: no
\* buffers"), and iderw() has something to do.
NoPanic ==
  Cardinality(Buf) >= Cardinality(Proc) + MaxPinned => \A p \in Proc : pc[p] # "panic"

\* No request is forgotten, also when it comes while the disk is busy: whoever
\* waits in iderw() has the buffer done or in the queue, and while the queue is
\* not empty the disk works on its first buffer, which is the one that ideintr()
\* will take off.
RequestsServed ==
  /\ \A p \in Proc : pc[p] = "iderw" =>
       (valid[b[p]] /\ ~dirty[b[p]]) # (b[p] \in Range(idequeue))
  /\ (cmd = NoCmd) <=> (idequeue = <<>>)
  /\ cmd # NoCmd =>
       /\ cmd.block = blockno[Head(idequeue)]
       /\ cmd.write = dirty[Head(idequeue)]
       /\ cmd.write => cmd.data = data[Head(idequeue)]

\* bread() returns what was last put in the block, also after recycling, nobody's
\* buffer becomes that of another block, and iderw() and ideintr() forget no
\* request.
CacheSound == TypeOK /\ ReadsLatest /\ BuffersStay /\ NoPanic /\ RequestsServed
=============================================================================
