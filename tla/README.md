# TLA+ specification of the xv6 laboratory

The repository holds the xv6 kernel with the changes of an operating systems
course (`src/xv6`), and the programs of the course's laboratories (`src/lab-*`,
`src/ejemplos*`). This project models the kernel from the bottom up: locks,
processes, the buffer cache and the log, pipes, the file system, memory, the
start of the CPUs, the console, the keyboard and the clock. It also models the user
library, the shells, `grep`, `mkfs`, and the laboratory programs that run
concurrently.

## Modules

A step of a module is what the code does between two points where another CPU,
process, thread or interrupt can see or change its state. Definitions have the
names of the C functions where they stand for one. Those whose comment says
*Faulty* belong to no specification: they are wrong variants, used to see that a
property notices the mistake.

**Locks, processes, disk**

| module | models | state and actions |
|---|---|---|
| `Mutex` | abstract | an owner per lock; `Take`, `Give` |
| `SpinLock`, `MCSpinLock` | `spinlock.c` | every load and store of `locked` and `cpu` is a step; CPUs run a stack of contexts, interrupts arrive whenever the flag is on |
| `SleepLock`, `MCSleepLock` | `sleeplock.c`, `sleep`/`wakeup` of `proc.c` | spin locks are atomic; the parts of `sleep()` that others can come between are steps |
| `Proc` | `proc.c`, `trap.c` | table of processes, CPUs with `swtch`, `ptable.lock` handed from process to scheduler |
| `Journal` | abstract | blocks that are durable, current, and operations under way |
| `Log` | `log.c`, `bio.c` in part | home blocks, log blocks and header on the disk; cache, pinned blocks, header in memory; a crash at any point |
| `BufCache`, `MCBufCache` | `bio.c`, `ide.c` | fields of the buffers, their list, owners of their locks, the request queue and the disk's command |
| `Fifo` | abstract | a byte stream |
| `Pipe`, `MCPipe` | `pipe.c`, `fileclose()` | ring buffer with uint counters, sleepers, kill, close |

**Files and memory**

| module | models | state and actions |
|---|---|---|
| `FileSys`, `MCFileSys` | `fs.c`, `sysfile.c` | inodes on the disk, as logged and as cached, with references and sleep locks; a call is a stack of steps (`todo`) onto which a called function puts its own; `Crash` |
| `InodeData` | `fs.c`, `file.c` | block bitmap, block numbers, sizes and offsets; each turn of the loop of `writei` is a step; `shadow` is what a file should contain |
| `FileTable` | `file.c`, `sysfile.c`, `pipealloc` | file table, descriptors, ends of pipes; each section under `ftable.lock` is a step |
| `Memory` | `kalloc.c`, `vm.c`, `exec.c`, `fork`, `wait`, `growproc` | pages counted by their use; each `kalloc()` is a step that may fail |
| `Boot` | `main.c`, `entryother.S`, `kalloc.c`, `lapicstartap`, `userinit`, `forkret` | where each CPU is, the three words that an entering CPU reads, the list of free pages with the load and the store of its head as steps, `use_lock` |
| `MCKernel` | | these five in one run |

**What faces one process, libraries, programs**

| module | models | state and actions |
|---|---|---|
| `Console` | `console.c` | input ring with uint indices, readers, cursor |
| `Keyboard` | `kbd.c`, `kbd.h` | bytes of the keyboard, the flags of `kbdgetc`, what the keys mean |
| `Clock` | `trap.c`, `sys_sleep` | `ticks`, sleepers |
| `Args` | `syscall.c` | size of the process, addresses the kernel touches for it |
| `Strings` | `string.c`, `ulib.c`, `printf.c`, `cprintf`, `skipelem` | one call on an arbitrary memory |
| `Heap` | `umalloc.c` | ring of free blocks |
| `UThread` | `uthreadlib.c`, `uthread_switch.S` | slots and saved contexts |
| `Shell` | `xv6/sh.c`; with other constants `lab-02/sh.c` | a line, its tree, the descriptors of the command |
| `Grep` | `grep.c` | matcher, and buffer refilled by `read()` |
| `Mkfs` | `mkfs.c` | the blocks of the image |
| `BoundedBuffer` | `lab-05/buf.c`, `prodcons.c` | two threads, semaphores, runs that are killed |
| `WordStack` | `lab-05/wordstack.c` | commands on a stack in shared memory |
| `ForkPrio` | `lab-03/forkprio.c` | a parent, its children, pending signals |
| `Counter` | `lab-04/glob.c`, `sched-threads.c`, `oops.c`, `oops_mutex.c` | loads and stores of two threads |
| `NamedSem` | `ejemplossemaforos/` | programs that share a named semaphore |
| `PageSim` | `lab-07/sim.c` | primary and secondary memory, page tables |
| `MCPrograms` | | these sixteen in one run |

**Proofs**: `SpinLockProofs`, `ThreadProofs` (`SleepLock`, `Clock`, `UThread`,
`Args`), `LabProofs` (`Counter`, `ForkPrio`, `NamedSem`, `WordStack`), `LogInv`,
`LogProofs`, `ProcProofs`, `RingProofs` (`Pipe`, `BoundedBuffer`), `BufCacheProofs`.

The layers rest on each other. `SpinLock` is proved to refine `Mutex`, so the
modules above treat a spin lock as an owner and a critical section as one step.
`SleepLock` is proved to refine `Mutex` again, so `BufCache`, `Log` and
`FileSys` treat a sleep lock as an owner. `Log` is proved to refine `Journal`, so
`FileSys` treats a transaction as an atomic change of the disk. `Pipe` is proved
to refine `Fifo`. `FileTable` counts what `Pipe` and `FileSys` assume of `fileclose`.
`InodeData` says what files contain, `FileSys` which names they have.

## Runs

| run | instance | checks |
|---|---|---|
| spinlock | 2 CPUs, 2 locks that nest, a handler per CPU | no panic, flag restored, no standstill, refinement of `Mutex` |
| sleeplock | 3 processes on 2 nested locks, 2 kills | refinement of `Mutex`; sleepers are woken |
| proc | 2 CPUs, 3 slots, pids up to 3, kill of 2 and 3 | `StacksSound` (one CPU per process, no zombie resumed), `FamiliesSound` (no orphan, no forgotten waiter), `SlotsSound` (no slot leak, unique pids); `ProcessesProgress` (RUNNABLE processes run, `wait` returns) |
| proc_killed | 1 CPU, 3 slots, pids up to 4 | killed processes reach `exit` |
| log | 2 processes, 2 blocks, 2 values | refinement of `Journal`, durable when quiet; sleepers are woken |
| pipe | 2 writers, 1 reader, buffer of 2, counters modulo 4, writes of 1 and 3 bytes, reads of 2 | refinement of `Fifo`, `PipeSound` (no use after free, no lost wakeup); close unblocks |
| bufcache | 2 processes, 4 blocks, 3 buffers, 1 pinned; and the log with 3 processes and 4 blocks | reads return the last write, buffers stay with those who wait, requests are served; the log fits and its sleepers have somebody to wait for |
| kernel | 2 processes, 3 calls out of eight from two starts, 4 entries in the inode cache, 1 crash; 2 writers of 2 inodes on 5 blocks; 2 tasks on 3 files of 2 descriptors each and a pipe; 2 processes on 14 pages; 3 CPUs and 5 pages at start-up | the tree on the disk, references and locks of inodes; contents and blocks of files; counts of files and ends; pages; stacks of the CPUs that start, and the allocator without its lock |
| programs | see the `INSTANCE`s of `MCPrograms` | a property for each; those of `Keyboard` are in `ConsoleSound` |
| fs_leak, fs_deadlock, log_reserve | the smallest that show it | expected violations, see below |

`bufcache`, `kernel` and `programs` are sums: a behaviour begins by choosing a
part (`sys`) and stays in it, so each part is explored as if it were alone.

**Bounds.** Three slots are the least with a parent, a child and a process that
is reparented; two CPUs the least with a race on `swtch`. `MaxPid` bounds
the forks, `MaxKills` the spurious wakeups or the programs killed, `MaxDepth`
nested interrupts (the code never nests them: `HandlersNotPreempted`). A pipe of
two with writes shorter and longer than it meets every full, empty and wrap-around
case. More blocks than buffers make `bget` recycle; `MaxPinned` bounds what the log
pins. `OpBlocks` bounds what an operation writes; in `log` and `bufcache` it is less than
`MAXOPBLOCKS`, for the reason of the finding `log_reserve`. The tree of
`FileSys` has a file and a directory, so that every call meets an existing, a
missing and a vanishing name; `MaxCalls` is the least with which a call finds what
two others left. In one of the `Starts` a process is in a directory that was
removed, so that the directory above it can go too (it counts as one of the calls); `NINODE` is less than the
references the calls may need, so `iget` also panics. Files reach from one direct
block into the indirect one, and the disk has room for one of them and one block
more: `balloc` panics at every place where it is called. The tables of `FileTable` and the pages of `Memory`
run out at every allocation. Three CPUs are the least of which one is being
started while another is up; one page above `NLOW` is what `kinit2` adds. `MaxMoves` and
`MaxBytes` allow a modifier, a key and their releases with their bytes still unread;
`MaxCreated` lets the user-level threads run out of slots, first and after some were
reused. The `Reference`s of `PageSim` include pages below 1, one above `TAM_PROCESS`
and a pid without an entry, with two words that coincide. `MaxHijos` and `MaxInts`
allow a second ^C after handlers were reset. `WORD` and `UINT` stand for 2^32: small powers of two
that every counter passes. `Lines`, `Patterns`, `Texts`, `Formats` and `Files` are all the
short inputs of a few kinds of characters, with longer ones where a case needs
them. `CHECK_DEADLOCK FALSE` stands where processes may all be finished or the
machine may be idle; in `kernel` also because of the finding `fs_deadlock`.

**Fairness.** CPUs execute instructions (weak fairness of steps inside the
kernel), critical sections end, and an operation reaches `end_op()`. Nothing is
assumed of who wins an `xchg` in `SpinLock` and `SleepLock`. The liveness of
`proc_killed` and `pipe` assumes that a lock that is free again and again is
obtained in the end (strong fairness). `KilledExits` is checked on one CPU: with
two, an unfair `ptable.lock` lets a process lose for ever. User programs never
have to make a call or exit.

## Findings

* `fs_leak`: two processes drop the last two references of an unlinked inode; if
  the second looks at `ref` before the first has decremented it, neither frees the
  inode (`fs.c:337`), and nothing does so later.
* `fs_deadlock`: `sys_unlink` and `create` call `iunlockput(dp)` with the child
  locked, and `iput` locks `dp` again (`sysfile.c:225`, `fs.c:334`); a process
  that has locked `dp` meanwhile and wants the child waits for ever.
* `log_reserve`: `begin_op` reserves up to `LOGSIZE` blocks, the log has room for
  `LOGSIZE - 1` beside its header, and `log_write` panics there. It takes
  operations that write all of their `MAXOPBLOCKS`.

Other behaviours that a reader of the models should expect. The models contain
those of the kernel and of the modelled programs, and the properties are stated
so that they hold with them.

* `kill(0)`, or the pid left in a slot by a failed `fork`, marks a free slot, and
  `allocproc` does not clear `killed` (`proc.c:486`).
* A `kill` between the test of `killed` and `sleep` wakes nobody (`Pipe`, `Clock`,
  `Console`). A killed pipe writer returns without waking the readers of the
  bytes it has written; `NoLostWakeup` states what remains true.
* `sys_sleep` with a negative `n` sleeps for almost 2^32 ticks.
* `sbrk(-sz)` frees every page, returns -1 and keeps `sz` (`proc.c`, `growproc`).
* The user `memmove` is wrong for a target that overlaps the end of its source;
  `safestrcpy` writes two terminators, both inside its `n` bytes.
* In the shell, `cmd > out < missing` carries out the last redirection first, does
  not look at the failed `open`, and then opens `out` as the free descriptor 0.
* `mkfs` rounds the root directory up to one block more than it has allocated when the entries fill
  their blocks exactly, and does not check the number of inodes.
* `iget` panics when `NINODE` = 50 inodes are in use, which 100 open files can
  bring about (`fs.c:262`), and `ialloc` when none is free. The name `..` of a
  removed directory leads to whatever its parent's inode is now: if the parent was
  removed too, `ilock` panics (`fs.c:310`) or the inode is another one.
  `PanicsKnown` says that there are no other panics.
* `balloc` panics on a full disk instead of failing (`fs.c:77`): the writer stops with
  the inode locked. `ContentExact` says what the file contains all the same.
* `thread_create` does not test whether there is a free slot (`uthreadlib.c:77-84`), and
  `uthread.c` creates as many threads as its argument says: with `MAX_THREAD` or more it
  writes behind the table. What follows is undefined; the model ends there, and
  `ThreadsSound` says how many creations it takes. A third thread waits until one
  of the first two ends, as `lab-04/README.md:168` says.
* `buf.c` destroys its mutex while the threads use it: items still arrive once
  and in order. `prodcons.c` and `oops_mutex.c` find the semaphores of a killed
  run; their properties are about the other runs.
* `forkprio.c` leaves its children behind after a failed `fork`, a ^C before its
  handler is set up, or with negative seconds. Its `killAll` sends to `hijos[0]`,
  which is 0 and means the whole group; the rest of its loop would miss a child. It does
  not test its first argument against `CHILD_MAX`; `PrioAssumption` does.
* `kbdgetc` forgets a modifier of which two keys were held when one of them goes up.
* `sim.c` never gives process 0 a table, and after `NUM_MAX` references finds no
  victim. It refuses only pages above `TAM_PROCESS` (`sim.c:338`): page 0 overwrites the
  pid of its process, which is then created again with an empty table, or makes another
  process look as if it had one; a lower page writes into the entry before. The
  memories stay as they should, the tables do not, and `PagesSound` says so. A pid of
  `MAX_PROCESS` or more, or a negative one, writes outside the array, and the model ends
  there. At the end of its input
  `scanf` no longer sets `num`, and the loop goes on with what it holds.
* `wordstack.c` copies a word without looking at `MAX_WORD` (`wordstack.c:126-128`): a
  longer one runs into the rows below or behind the last one. The counters and
  semaphores lie before the rows, and stay right. Its mutex is not initialised as
  shared between processes, so a process that waits for it may not be woken; nothing is
  claimed about who gets it when.
* `Fifo` says which bytes arrive and in which order; which part of whose
  message a byte is, two writers of a pipe decide between them (`pipe.c:82`).

## Proofs

All theorems hold for every value of the constants that satisfies the named
`ASSUME` of the module: any number of CPUs, processes, locks, blocks and buffers,
any sizes. Each inductive invariant `IInv` was first model-checked on the
instance of the run, then proved: `Init => IInv`, one lemma per action
for `IInv /\ Next => IInv'`, and `IInv =>` the property.

* `SpinLockProofs`. The invariant says, for each lock, who owns it and that
  `cpu` agrees except between two stores of the owner, and for each CPU (`CliOK`)
  that `ncli` counts its locks and pending `pushcli`, and that interrupts are off
  while it is positive. Exclusion alone is not inductive: an interrupt could
  otherwise preempt an owner, and `holding()` could err. From it: no panic, no
  self-deadlock, mutual exclusion, handlers not preempted, refinement of `Mutex`.
  `FlagRestored` speaks of a state and of all later ones. Its proof needs what
  `pushcli` will read (`EflagsOK`), and that `On` (the flag is on, or `intena`
  remembers that it was), once true, stays true.
* `ThreadProofs`, sleep locks. The invariant ties `locked`, `pid` and `held` together, the
  owners of `lk->lk` and `ptable.lock` to program counters, and the sleeping
  state to the label in `sleep()`. Exact `holdingsleep`, `NoLostWakeup` and
  refinement of `Mutex` follow.
* `ThreadProofs`, clock. `SleepExact` speaks of the ticks that really passed, the code
  compares a difference of counters that wrap around. `NapOK` says that the two agree
  as long as a call lasts, and needs that it ends before the counter comes round:
  `ClockAssumption`, that the argument of `sleep()` as a `uint` leaves room for the
  lag. It is the only assumption, and an argument from `-LAG` to `-1` breaks it.
* `ThreadProofs`, user-level threads. `ContextsOK` with the types is inductive: a switch
  saves the context of the thread that leaves and takes one that was saved. `SlotsOK` says
  that a slot in use is not above the number of calls of `thread_create`, because a
  thread takes the first free slot: so a call without a free one is at least
  the `MAX_THREAD`-th. Nothing is claimed after it.
* `ThreadProofs`, arguments. `ArgsInside` needs only that a process ends at or below
  `KERNBASE` (`ArgsOK`). The address `esp + 4` may wrap around, and is checked afterwards.
  The sum of a pointer and a size does not once the pointer is inside the process
  (`NoWrap`): a size is an `int`, and twice `KERNBASE` fits into a `uint`
  (`ArgsAssumption`). Without that, `argptr` would accept blocks that go round.
* `LabProofs`, counters. With the semaphore, the variable equals the rounds stored, and
  at most one thread is inside, unless a killed run left the semaphore at 0
  (`MutexOK`). Without it, lost updates can take the variable back, but not below 1
  once a round is stored, nor can a thread's copy be 0 from its second round on
  (`SumOK`): so the last store leaves at least 2, and an index never passes the rounds.
* `LabProofs`, children. `PrioOK` says that no child is alive beyond `numHijos`, and that
  the loop of `forkprio.c` has sent to every child below its index. A child keeps the
  signal pending until it ends (`DoomedKept`), so a ^C in the middle of the loop
  leaves nobody out.
* `LabProofs`, named semaphores. For each semaphore, its value, the processes in the zone
  and the tokens lost with killed processes add up to 1 and the runs of `up`
  (`SemOK`): `mutexnowait.c`, when its time is out, leaves without posting. A
  semaphore that was unlinked keeps its users, so the sum is one per object, not per name.
* `LabProofs`, stack of words. `Tokens` counts the commands by phase: those that fill a row,
  have filled it, clear one or have cleared it hold a token of `empty` or `full`; with the
  semaphores they make up `free` and `items`, and less than that once a command was killed.
  `OneInside` is the mutex, and `HeapShape` says which rows are words at each step of the
  command that has it, as long as no word was longer than a row. A command killed inside leaves the mutex locked, which is
  why the rows stay whole. The number of a phase changes by one when one terminal moves.
* `LogInv`, `LogProofs`. `IInv` is `TypeOK`, `ProcOK` (who is inside an operation, that
  `outstanding` counts them, that one process commits and then nobody writes),
  `CacheOK` (a buffer differs from its home only if it is pinned or in use) and
  `LogOK` (the log has no repetitions, contains the pinned blocks, and up to
  `tail` is copied or installed). Refinement of `Journal` follows: the write of
  the header is `Commit`, installing and recovery are stutters.
  The space of the log needs `SpaceOK` on top: `Room` is the set of blocks that the
  operations under way may still add, and the log with `Room` stays two below `LOGSIZE`.
  `LogAppend` takes out of `Room` what it adds to the log; `BeginOp` lets in an operation
  only if the reservations fit, and a second one brings the block to spare.
  `LogSpaceHolds` states the `LogHolds` that the run `bufcache` checks of its instance of
  `Log`. It assumes `Reserves`, that an operation writes less than
  `MAXOPBLOCKS`; without it the finding `log_reserve` is a counterexample.
* `ProcProofs`. The properties of `proc.c` hold one another up, so the invariant
  holds them together: where each CPU is and who has `ptable.lock` across `swtch`
  (`CpuOK`), where a process will resume (`FrameOK`), that init never exits
  (`InitOK`), how far a `fork` has filled in its slot (`ForkOK`), that free slots are nobody's
  children (`UnusedOK`), and pids below `nextpid` (`PidOK`). `StacksSound`,
  `FamiliesSound` and `SlotsSound` follow.
* `RingProofs`, pipe. `IInv` adds to `PipeSound` that `Count` is at most `PIPESIZE`, who holds
  the lock, which ends are open, and `NoLostWakeup` for a process that is still
  going to sleep. Lemmas on `%` show that counters which wrap around `UINT` keep
  naming the right slots, because `PIPESIZE` divides it and is smaller: the one
  assumption on the sizes. Each turn of the loops is then a step of `Fifo` or a stutter.
* `RingProofs`, bounded buffer. `TokensOK` gives each semaphore as a function of
  the positions of the two threads, so the producer is at most `BUFFER_SIZE` ahead;
  `ItemsOK` says that the last `BUFFER_SIZE` items are in the slots `i % BUFFER_SIZE`, which
  differ (`SlotsApart`). The mutex is not used in the argument: with one producer
  and one consumer the two counting semaphores are enough, which is why it is
  no harm that `main()` of `buf.c` destroys it early. `Ready` follows
  `main()` of `prodcons.c` to the threads when it finds no semaphores of an earlier run.
* `BufCacheProofs`. `IInv` says what a process has of its buffer
  (`ProcOK`), that the queue has each buffer once and a waiter for each
  (`QueueOK`), that a valid buffer has the current contents and the disk has them
  unless a buffer is dirty (`DataOK`), and that `refcnt` counts users (`CountOK`).
  `CacheSound` follows. That `bget` finds a buffer, when there is one for each
  process beside the pinned ones, is a counting argument over finite sets.
  That the scan of the list ends at the least recently used one is shown
  with a minimal element (`WFMin`), and the list stays a permutation
  of the buffers because `ToHead` is one.

Only model-checked: all other modules, and all liveness, which is out of the prover's
reach. So are `Strings`, `Shell`, `Grep` and `Mkfs`, whose reference definitions
are recursive: what a recursion computes needs induction over data, while the
arguments above only take a least element of a set of numbers.

## Not modelled, and why

The inventory of all parts with their state is `components` in `PROJECT.json`; the
list of what can go wrong is `hazards`.

* The boot loader, page table and segment registers, interrupt controllers, the
  registers of the serial port and of the disk: devices outside the
  repository would have to be invented.
* Memory ordering weaker than the code's barriers, disk errors, `memide.c`.
* Calls that only read (`procdump`, `sys_pscnt`, `sys_getppid`, `stati`, `uptime`)
  and wording of output.
* `usertests.c`, `stressfs.c`, `forktest.c`: tests of the kernel from outside.
* Laboratory programs around one or two system calls, and measurements of time.
* `lab-05/msgbox.c`, `canvas.c`, `wordheap.c`: single accesses to a queue of the
  host's kernel or to shared memory, without a protocol of their own.
* `wordstack -c` on a stack that is in use: its semaphores are initialised under
  their users, which POSIX leaves undefined.
