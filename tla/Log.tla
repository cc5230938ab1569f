--------------------------------- MODULE Log ---------------------------------
(***************************************************************************)
(* The redo log of xv6/log.c over the buffer cache of xv6/bio.c, with      *)
(* crashes at any step, recovery at boot, and crashes during recovery.     *)
(*                                                                         *)
(* log.lock is atomic (SpinLock.tla), and so is sleep(&log, &log.lock)     *)
(* (SleepLock.tla); a buffer that a process has from bread() to brelse()   *)
(* is locked.  One step writes one block: a block is one sector, so the    *)
(* disk has the old or the new contents of it, never a mixture.  The       *)
(* contents of a block are a value.                                        *)
(***************************************************************************)
EXTENDS Naturals, FiniteSets, Sequences

CONSTANTS Proc,         \* the processes that make file system calls
          Block,        \* the blocks outside the log
          Val,          \* the contents of a block
          NoBlock, NoData,
          MAXOPBLOCKS,  \* what begin_op() reserves for an operation
          LOGSIZE,      \* length of the in-memory header
          nlog,         \* sb.nlog: blocks of the log on disk, its header included
          OpBlocks      \* the blocks an operation really writes, at most

ASSUME LogAssumption ==
  /\ IsFiniteSet(Proc) /\ IsFiniteSet(Block)
  /\ NoBlock \notin Block /\ NoData \notin Val
  /\ MAXOPBLOCKS \in Nat \ {0} /\ LOGSIZE \in Nat /\ nlog \in Nat /\ OpBlocks \in Nat

VARIABLES
  home, head, logblk,     \* disk: the blocks, the header, the blocks of the log
  cache,                  \* contents of the cached blocks
  dirty,                  \* the cached blocks with B_DIRTY
  lh,                     \* log.lh: its n is the length
  outstanding, committing,
  tail,                   \* the loops of write_log() and install_trans()
  boot,                   \* where recover_from_log() is, or "up"
  pc,                     \* where the process is
  buf,                    \* the block whose buffer it has locked
  wrote                   \* the blocks its operation has written

vars == <<home, head, logblk, cache, dirty, lh, outstanding, committing, tail,
          boot, pc, buf, wrote>>

disk == <<home, head, logblk>>

\* The blocks from log.start + 1 on that the log can come to use: a block is in
\* it once.  Whether these are within the log's nlog blocks is LogFits.
Slot == 1..Cardinality(Block)

\* The blocks of a header.
Blocks(s) == {s[i] : i \in 1..Len(s)}

TypeOK ==
  /\ home \in [Block -> Val]
  /\ head \in Seq(Block) /\ lh \in Seq(Block)
  /\ logblk \in [Slot -> Val]
  /\ cache \in [Block -> Val \cup {NoData}]
  /\ dirty \subseteq Block
  /\ outstanding \in Nat
  /\ committing \in BOOLEAN
  /\ tail \in Nat
  /\ boot \in {"read_head", "install", "up"}
  /\ pc \in [Proc -> {"idle", "begin", "sleep", "op", "check", "append", "write_log",
                      "install", "done", "panic"}]
  /\ buf \in [Proc -> Block \cup {NoBlock}]
  /\ wrote \in [Proc -> SUBSET Block]

\* An image of which the log is empty; the machine is about to boot.
Init ==
  /\ home \in [Block -> Val] /\ logblk \in [Slot -> Val] /\ head = <<>>
  /\ cache = [b \in Block |-> NoData]
  /\ dirty = {}
  /\ lh = <<>>
  /\ outstanding = 0 /\ committing = FALSE
  /\ tail = 0
  /\ boot = "read_head"
  /\ pc = [p \in Proc |-> "idle"]
  /\ buf = [p \in Proc |-> NoBlock]
  /\ wrote = [p \in Proc |-> {}]

At(p, label) == boot = "up" /\ pc[p] = label
GoTo(p, label) == pc' = [pc EXCEPT ![p] = label]

\* bread(): the contents of the buffer, from the disk if b is not cached.
Contents(b) == IF cache[b] = NoData THEN home[b] ELSE cache[b]

-----------------------------------------------------------------------------
\* A turn of install_trans(): log block tail to its home, through the cache;
\* bwrite() leaves the buffer clean.
InstallTrans ==
  LET b == lh[tail + 1] IN
  /\ tail < Len(lh)
  /\ home' = [home EXCEPT ![b] = logblk[tail + 1]]
  /\ cache' = [cache EXCEPT ![b] = logblk[tail + 1]]
  /\ dirty' = dirty \ {b}
  /\ tail' = tail + 1
  /\ UNCHANGED <<head, logblk, lh>>

\* After install_trans(): log.lh.n = 0 and write_head().
Erase ==
  /\ tail = Len(lh)
  /\ lh' = <<>> /\ head' = <<>>
  /\ UNCHANGED <<home, logblk, cache, dirty, tail>>

\* recover_from_log(): read_head() ...
ReadHead ==
  /\ boot = "read_head"
  /\ lh' = head /\ tail' = 0 /\ boot' = "install"
  /\ UNCHANGED <<disk, cache, dirty, outstanding, committing, pc, buf, wrote>>

\* ... install_trans() ...
RecoverInstall ==
  /\ boot = "install"
  /\ InstallTrans
  /\ UNCHANGED <<outstanding, committing, boot, pc, buf, wrote>>

\* ... and the erased header, after which the system is up.
RecoverErase ==
  /\ boot = "install"
  /\ Erase
  /\ boot' = "up"
  /\ UNCHANGED <<outstanding, committing, pc, buf, wrote>>

-----------------------------------------------------------------------------
\* Faulty: begin_op() that does not reserve room for the operations under way.
BeginOpNoReserve(p) ==
  /\ At(p, "idle") \/ At(p, "begin")
  /\ IF committing \/ Len(lh) + MAXOPBLOCKS > LOGSIZE
       THEN GoTo(p, "sleep") /\ UNCHANGED <<outstanding, wrote>>
       ELSE /\ outstanding' = outstanding + 1
            /\ wrote' = [wrote EXCEPT ![p] = {}]
            /\ GoTo(p, "op")
  /\ UNCHANGED <<disk, cache, dirty, lh, committing, tail, boot, buf>>

\* begin_op(), called or woken: sleep, or enter the transaction.
BeginOp(p) ==
  /\ At(p, "idle") \/ At(p, "begin")
  /\ IF committing \/ Len(lh) + (outstanding + 1) * MAXOPBLOCKS > LOGSIZE
       THEN GoTo(p, "sleep") /\ UNCHANGED <<outstanding, wrote>>
       ELSE /\ outstanding' = outstanding + 1
            /\ wrote' = [wrote EXCEPT ![p] = {}]
            /\ GoTo(p, "op")
  /\ UNCHANGED <<disk, cache, dirty, lh, committing, tail, boot, buf>>

\* The operation has b's buffer from bread() and changes its data ...
Modify(p, b, v) ==
  /\ At(p, "op")
  /\ \A q \in Proc : buf[q] # b
  /\ Cardinality(wrote[p] \cup {b}) <= OpBlocks
  /\ cache' = [cache EXCEPT ![b] = v]
  /\ buf' = [buf EXCEPT ![p] = b]
  /\ wrote' = [wrote EXCEPT ![p] = @ \cup {b}]
  /\ GoTo(p, "check")
  /\ UNCHANGED <<disk, dirty, lh, outstanding, committing, tail, boot>>

\* ... log_write() tests the size of the log, without the lock ...
LogCheck(p) ==
  /\ At(p, "check")
  /\ IF Len(lh) >= LOGSIZE \/ Len(lh) >= nlog - 1 \/ outstanding < 1
       THEN GoTo(p, "panic") ELSE GoTo(p, "append")
  /\ UNCHANGED <<disk, cache, dirty, lh, outstanding, committing, tail, boot, buf, wrote>>

\* ... and, with it, adds the block unless it is there already; brelse().
LogAppend(p) ==
  /\ At(p, "append")
  /\ lh' = IF buf[p] \in Blocks(lh) THEN lh ELSE Append(lh, buf[p])
  /\ dirty' = dirty \cup {buf[p]}
  /\ buf' = [buf EXCEPT ![p] = NoBlock]
  /\ GoTo(p, "op")
  /\ UNCHANGED <<disk, cache, outstanding, committing, tail, boot, wrote>>

\* wakeup(&log).
Wakeup(next) == [q \in Proc |-> IF pc[q] = "sleep" THEN "begin" ELSE next[q]]

\* Faulty: end_op() that commits although other operations are under way.
EndOpCommits(p) ==
  /\ At(p, "op")
  /\ outstanding' = outstanding - 1
  /\ committing' = TRUE
  /\ tail' = 0
  /\ GoTo(p, IF lh = <<>> THEN "done" ELSE "write_log")
  /\ UNCHANGED <<disk, cache, dirty, lh, boot, buf, wrote>>

\* Faulty: end_op() that leaves the commit to a later operation.
EndOpNoCommit(p) ==
  /\ At(p, "op")
  /\ outstanding' = outstanding - 1
  /\ pc' = Wakeup([pc EXCEPT ![p] = "idle"])
  /\ UNCHANGED <<disk, cache, dirty, lh, committing, tail, boot, buf, wrote>>

\* end_op() up to the call of commit(), which with an empty log does nothing.
EndOp(p) ==
  /\ At(p, "op")
  /\ outstanding' = outstanding - 1
  /\ IF committing
       THEN GoTo(p, "panic") /\ UNCHANGED <<committing, tail>>
       ELSE IF outstanding = 1
       THEN /\ committing' = TRUE
            /\ tail' = 0
            /\ GoTo(p, IF lh = <<>> THEN "done" ELSE "write_log")
       ELSE /\ pc' = Wakeup([pc EXCEPT ![p] = "idle"])
            /\ UNCHANGED <<committing, tail>>
  /\ UNCHANGED <<disk, cache, dirty, lh, boot, buf, wrote>>

\* commit(): a turn of write_log() ...
WriteLog(p) ==
  /\ At(p, "write_log") /\ tail < Len(lh)
  /\ logblk' = [logblk EXCEPT ![tail + 1] = Contents(lh[tail + 1])]
  /\ tail' = tail + 1
  /\ UNCHANGED <<home, head, cache, dirty, lh, outstanding, committing, boot, pc, buf, wrote>>

\* ... write_head(), "the true point at which the current transaction commits" ...
WriteHead(p) ==
  /\ At(p, "write_log") /\ tail = Len(lh)
  /\ head' = lh /\ tail' = 0
  /\ GoTo(p, "install")
  /\ UNCHANGED <<home, logblk, cache, dirty, lh, outstanding, committing, boot, buf, wrote>>

\* ... install_trans() ...
CommitInstall(p) ==
  /\ At(p, "install")
  /\ InstallTrans
  /\ UNCHANGED <<outstanding, committing, boot, pc, buf, wrote>>

\* ... and write_head() of the empty log.
CommitErase(p) ==
  /\ At(p, "install")
  /\ Erase
  /\ GoTo(p, "done")
  /\ UNCHANGED <<outstanding, committing, boot, buf, wrote>>

\* Faulty: no wakeup(&log) after commit().
EndCommitNoWakeup(p) ==
  /\ At(p, "done")
  /\ committing' = FALSE
  /\ GoTo(p, "idle")
  /\ UNCHANGED <<disk, cache, dirty, lh, outstanding, tail, boot, buf, wrote>>

\* end_op() after commit().
EndCommit(p) ==
  /\ At(p, "done")
  /\ committing' = FALSE
  /\ pc' = Wakeup([pc EXCEPT ![p] = "idle"])
  /\ UNCHANGED <<disk, cache, dirty, lh, outstanding, tail, boot, buf, wrote>>

\* bget() recycles the buffer of b: nobody has it and it is not B_DIRTY.
Evict(b) ==
  /\ boot = "up" /\ cache[b] # NoData
  /\ b \notin dirty /\ \A p \in Proc : buf[p] # b
  /\ cache' = [cache EXCEPT ![b] = NoData]
  /\ UNCHANGED <<disk, dirty, lh, outstanding, committing, tail, boot, pc, buf, wrote>>

\* The power fails: the disk stays, the memory goes, the machine boots again.
Crash ==
  /\ cache' = [b \in Block |-> NoData]
  /\ dirty' = {} /\ lh' = <<>> /\ outstanding' = 0 /\ committing' = FALSE
  /\ tail' = 0 /\ boot' = "read_head"
  /\ pc' = [p \in Proc |-> "idle"]
  /\ buf' = [p \in Proc |-> NoBlock]
  /\ wrote' = [p \in Proc |-> {}]
  /\ UNCHANGED disk

\* What goes on by itself once an operation has begun.
Step(p) ==
  \/ LogCheck(p) \/ LogAppend(p)
  \/ WriteLog(p) \/ WriteHead(p) \/ CommitInstall(p) \/ CommitErase(p) \/ EndCommit(p)

Recovery == ReadHead \/ RecoverInstall \/ RecoverErase

Next ==
  \/ Recovery
  \/ \E p \in Proc : BeginOp(p) \/ EndOp(p) \/ Step(p)
  \/ \E p \in Proc, b \in Block, v \in Val : Modify(p, b, v)
  \/ \E b \in Block : Evict(b)
  \/ Crash

Spec == Init /\ [][Next]_vars

\* Operations and the commit go on, and an operation writes finitely often
\* before end_op().  Crashes, and new operations, may or may not happen.
FairSpec ==
  Spec /\ WF_vars(Recovery)
       /\ \A p \in Proc : WF_vars(Step(p)) /\ SF_vars(EndOp(p))

-----------------------------------------------------------------------------
\* What recovery would make of a disk with blocks hm, header h and log lb: the
\* blocks with the log laid over them.
Recovered(hm, h, lb) ==
  [b \in Block |-> IF \E i \in 1..Len(h) : h[i] = b
                    THEN lb[CHOOSE i \in 1..Len(h) : h[i] = b]
                    ELSE hm[b]]

Durable == Recovered(home, head, logblk)
Current == IF boot = "up" THEN [b \in Block |-> Contents(b)] ELSE Durable
Active == {p \in Proc : pc[p] \in {"op", "check", "append", "panic"}}

J == INSTANCE Journal WITH durable <- Durable, current <- Current, active <- Active

\* The log makes the writes of each operation atomic with respect to crashes:
\* "there is never any reasoning required about whether a commit might write an
\* uncommitted system call's updates to disk".
ImplementsJournal == J!JournalSpec

\* install_trans() writes the home of a block only while a header on the disk
\* says that the block is in the log: write-ahead.
WriteAhead ==
  [][\A b \in Block : home'[b] # home[b] => b \in Blocks(head)]_vars

\* end_op() of the last operation has committed: when no operation is under way
\* and no commit, the log is empty and the disk has what readers see.
DurableWhenQuiet ==
  boot = "up" /\ outstanding = 0 /\ ~committing =>
    lh = <<>> /\ Durable = Current

\* begin_op() reserves enough: the log never grows past its blocks on the disk
\* (write_log() would write inode blocks), although log_write() tests the size
\* before it takes the lock.
LogFits == Len(lh) <= nlog - 1

\* None of the panics "too big a transaction", "log_write outside of trans" and
\* "log.committing" is reached.
NoPanic == \A p \in Proc : pc[p] # "panic"

\* Who sleeps in begin_op() waits for a commit or for an operation under way;
\* both end in wakeup(&log).
SleepersAwaited ==
  (\E p \in Proc : pc[p] = "sleep") => committing \/ outstanding > 0

\* The three together, the log's promise to who writes through it: room for every
\* operation that begin_op() lets in, no panic, and no sleeper forgotten.
LogHolds == LogFits /\ NoPanic /\ SleepersAwaited

\* What the sizes must satisfy for it.  An operation writes less than it reserves,
\* since one block of the log's nlog is the header and log_write() panics one
\* block early; param.h has MAXOPBLOCKS 10 and LOGSIZE 30, mkfs.c nlog 30.
Reserves ==
  /\ OpBlocks < MAXOPBLOCKS /\ OpBlocks + 2 <= LOGSIZE
  /\ MAXOPBLOCKS <= LOGSIZE /\ LOGSIZE <= nlog

\* Every process asleep in begin_op() is woken (it may have to sleep again).
SleeperWoken == \A p \in Proc : pc[p] = "sleep" ~> pc[p] # "sleep"

\* "max data blocks in on-disk log": LOGSIZE blocks can be in the log, so the
\* operations that begin_op() admits, MAXOPBLOCKS blocks each, do not panic.
ReservationSuffices == NoPanic
====
