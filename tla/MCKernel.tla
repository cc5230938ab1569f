------------------------------ MODULE MCKernel ------------------------------
(***************************************************************************)
(* Five parts of the kernel below the system calls in one run: the inode   *)
(* cache and directories, the contents of files, the file table, memory,   *)
(* and the start of the CPUs.  They share no variable, so a behaviour      *)
(* picks one of them (`sys`) and the others stay switched off: every part  *)
(* is explored as if alone, and the product of their state spaces is never *)
(* built.  What a part assumes of another is said in its own module.       *)
(***************************************************************************)
EXTENDS MCFileSys, Integers, Sequences

CONSTANTS Writer, File, NFILES, NBLOCKS, BSIZE, NDIRECT, OPBLOCKS, Lengths, MaxWrites, MaxTrunc
CONSTANTS Task, NTABLE, NOFILE, NPIPE
CONSTANTS NCPUS, NLOW, NPAGES
CONSTANTS NFRAMES, PGSIZE, NPTENTRIES, NPDENTRIES, Increments, Programs

VARIABLES sys
VARIABLES used, block, addrs, size, off, lock, job, loggedBlocks, shadow, writes, truncs
VARIABLES ftable, ofile, pipes, iref, pend, live
VARIABLES freelist, space, kstack, call
VARIABLES pc, ret, index, param, stack, pgdir, started, pages, use_lock, holder, run, owned,
          pstate, cur, first, logReady

D == INSTANCE InodeData WITH NINODES <- NFILES, MAXOPBLOCKS <- OPBLOCKS
T == INSTANCE FileTable WITH NFILE <- NTABLE
M == INSTANCE Memory
B == INSTANCE Boot WITH freelist <- pages

fileVars == <<used, block, addrs, size, off, lock, job, loggedBlocks, shadow, writes, truncs>>
tableVars == <<ftable, ofile, pipes, iref, pend, live>>
memVars == <<freelist, space, kstack, call>>
bootVars == <<pc, ret, index, param, stack, pgdir, started, pages, use_lock, holder, run, owned,
              pstate, cur, first, logReady>>
kernelVars == <<sys, vars, fileVars, tableVars, memVars, bootVars>>

TreeOff == /\ disk = 0 /\ logged = 0 /\ icache = 0 /\ owner = 0 /\ cwd = 0 /\ file = 0
           /\ todo = 0 /\ loc = 0 /\ calls = 0 /\ crashes = 0
DataOff == /\ used = 0 /\ block = 0 /\ addrs = 0 /\ size = 0 /\ off = 0 /\ lock = 0 /\ job = 0
           /\ loggedBlocks = 0 /\ shadow = 0 /\ writes = 0 /\ truncs = 0
TableOff == ftable = 0 /\ ofile = 0 /\ pipes = 0 /\ iref = 0 /\ pend = 0 /\ live = 0
MemoryOff == freelist = 0 /\ space = 0 /\ kstack = 0 /\ call = 0
BootOff == /\ pc = 0 /\ ret = 0 /\ index = 0 /\ param = 0 /\ stack = 0 /\ pgdir = 0 /\ started = 0
           /\ pages = 0 /\ use_lock = 0 /\ holder = 0 /\ run = 0 /\ owned = 0 /\ pstate = 0
           /\ cur = 0 /\ first = 0 /\ logReady = 0

KernelInit ==
  /\ sys \in {"tree", "data", "table", "memory", "boot"}
  /\ IF sys = "tree" THEN Init ELSE TreeOff
  /\ IF sys = "data" THEN D!Init ELSE DataOff
  /\ IF sys = "table" THEN T!Init ELSE TableOff
  /\ IF sys = "memory" THEN M!Init ELSE MemoryOff
  /\ IF sys = "boot" THEN B!Init ELSE BootOff

Tree == sys = "tree" /\ Next /\ UNCHANGED <<sys, fileVars, tableVars, memVars, bootVars>>
Data == sys = "data" /\ D!Next /\ UNCHANGED <<sys, vars, tableVars, memVars, bootVars>>
Table == sys = "table" /\ T!Next /\ UNCHANGED <<sys, vars, fileVars, memVars, bootVars>>
Memory == sys = "memory" /\ M!Next /\ UNCHANGED <<sys, vars, fileVars, tableVars, bootVars>>
Boot == sys = "boot" /\ B!Next /\ UNCHANGED <<sys, vars, fileVars, tableVars, memVars>>

KernelNext == Tree \/ Data \/ Table \/ Memory \/ Boot

KernelSpec == KernelInit /\ [][KernelNext]_kernelVars
-----------------------------------------------------------------------------
\* What sbrk() and exec() are given.
Incs == {-2, 3}
Progs == {[seg |-> <<3>>, load |-> 5, args |-> TRUE], [seg |-> <<3>>, load |-> 0, args |-> TRUE],
          [seg |-> <<1, 2>>, load |-> 5, args |-> FALSE]}

(* FileSys: directories, link counts and the inodes they name agree after  *)
(* every transaction, also across a crash.                                 *)
NamesSound == sys = "tree" => TreeSound

(* FileSys: every reference and lock of the inode cache belongs to a       *)
(* descriptor, a working directory or a call under way; no panic but those *)
(* of full tables and of a removed parent directory.                       *)
InodesHeld == sys = "tree" => RefsBalanced /\ PanicsKnown

(* InodeData: what files hold, and the blocks they hold it in.             *)
FilesKeepBytes == sys = "data" => D!FilesKeepBytes

(* FileTable: counts of open files and of pipe ends.                       *)
DescriptorsSound == sys = "table" => T!DescriptorsSound

(* Memory: no page frame is lost or used twice, and sz is what is mapped.  *)
MemorySound == sys = "memory" => M!FramesConserved /\ M!SizeMapped

(* Boot: the CPUs that startothers() starts get stacks of their own, and   *)
(* the allocator without its lock gives out no page twice.                 *)
BootSound == sys = "boot" => B!BootSound
=============================================================================
