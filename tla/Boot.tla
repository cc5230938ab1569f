-------------------------------- MODULE Boot --------------------------------
(***************************************************************************)
(* From main() to the first processes (xv6/main.c, xv6/entryother.S): the  *)
(* boot CPU starts the others one by one through three words below the     *)
(* entry code at 0x7000, gives the rest of the memory to the allocator,    *)
(* switches its lock on and creates the first process, while the CPUs that *)
(* are up already look for processes to run.                               *)
(*                                                                         *)
(* The page allocator is the list of xv6/kalloc.c, and between the load of *)
(* its head and the store of the new one another CPU can come, unless the  *)
(* lock is used.  Page 1 stands for kpgdir with its tables, and one page   *)
(* for what a new process needs.  There are pages for all of main().       *)
(***************************************************************************)
LOCAL INSTANCE Integers
LOCAL INSTANCE SequencesExt

CONSTANTS NCPUS,    \* CPUs 1..NCPUS in the order of cpus[]; 1 is the boot CPU
          NLOW,     \* pages 1..NLOW are below 4 Mbyte, where entrypgdir maps them,
          NPAGES    \* ... and NLOW+1..NPAGES above

VARIABLES pc, ret,   \* where each CPU is, and where kalloc() or kfree() returns
          index,     \* startothers(): the CPU of the loop; kinit2(): the page
          param,     \* the words below the entry code: stack and pgdir
          stack,     \* each CPU's stack page, 0 for the one it was booted with
          pgdir,     \* each CPU's cr3
          started,   \* cpus[].started
          freelist, use_lock, holder,  \* kmem, and who has its lock
          run,       \* each CPU's r in kalloc() and kfree(): the list it begins
          owned,     \* how often each page is in use
          pstate,    \* the first process and the one it forks; "READY" is
                     \* RUNNABLE for one that has run before
          cur,       \* the process each CPU runs, 0 for none
          first, logReady \* forkret()'s flag; initlog() has returned

bootVars == <<pc, ret, index, param, stack, pgdir, started, freelist, use_lock, holder, run, owned,
              pstate, cur, first, logReady>>
kmem == <<freelist, use_lock, holder, run, owned, ret>>
apVars == <<param, stack, pgdir, started>>
procs == <<pstate, cur, first, logReady>>

Cpu == 1..NCPUS
Page == 1..NPAGES
Process == {1, 2}

Init ==
  /\ pc = [c \in Cpu |-> IF c = 1 THEN "main" ELSE "halted"]
  /\ ret = [c \in Cpu |-> "none"] /\ index = 0
  /\ param = [stack |-> 0, pgdir |-> "none"]
  /\ stack = [c \in Cpu |-> 0]
  /\ pgdir = [c \in Cpu |-> IF c = 1 THEN "entrypgdir" ELSE "none"]
  /\ started = [c \in Cpu |-> FALSE]
  /\ freelist = <<>> /\ use_lock = FALSE /\ holder = 0
  /\ run = [c \in Cpu |-> <<>>]
  /\ owned = [p \in Page |-> 0]
  /\ pstate = [q \in Process |-> "UNUSED"] /\ cur = [c \in Cpu |-> 0]
  /\ first = TRUE /\ logReady = FALSE

GoTo(c, l) == pc' = [pc EXCEPT ![c] = l]
At(c, l) == pc[c] = l
-----------------------------------------------------------------------------
\* c calls kalloc() or kfree(v), which returns to l.
CallKalloc(c, l) == pc' = [pc EXCEPT ![c] = "kalloc"] /\ ret' = [ret EXCEPT ![c] = l]
CallKfree(c, v, l) ==
  /\ pc' = [pc EXCEPT ![c] = "kfree"] /\ ret' = [ret EXCEPT ![c] = l]
  /\ run' = [run EXCEPT ![c] = <<v>>]
  /\ owned' = [owned EXCEPT ![v] = 0]

\* if(kmem.use_lock) acquire(&kmem.lock);
Lock(c) == /\ use_lock => holder = 0
           /\ holder' = IF use_lock THEN c ELSE holder

\* r = kmem.freelist ...
kalloc(c) ==
  /\ At(c, "kalloc") /\ Lock(c)
  /\ run' = [run EXCEPT ![c] = freelist]
  /\ GoTo(c, "kalloc2")
  /\ UNCHANGED <<ret, index, apVars, freelist, use_lock, owned, procs>>

\* ... kmem.freelist = r->next.  The caller finds the page as the head of run[c].
kallocNext(c) ==
  /\ At(c, "kalloc2")
  /\ freelist' = IF run[c] = <<>> THEN freelist ELSE Tail(run[c])
  /\ owned' = IF run[c] = <<>> THEN owned ELSE [owned EXCEPT ![run[c][1]] = @ + 1]
  /\ holder' = IF use_lock THEN 0 ELSE holder
  /\ run' = [run EXCEPT ![c] = SubSeq(@, 1, IF @ = <<>> THEN 0 ELSE 1)]
  /\ GoTo(c, ret[c])
  /\ UNCHANGED <<ret, index, apVars, use_lock, procs>>

\* r->next = kmem.freelist ...
kfree(c) ==
  /\ At(c, "kfree") /\ Lock(c)
  /\ run' = [run EXCEPT ![c] = <<@[1]>> \o freelist]
  /\ GoTo(c, "kfree2")
  /\ UNCHANGED <<ret, index, apVars, freelist, use_lock, owned, procs>>

\* ... kmem.freelist = r.
kfreeNext(c) ==
  /\ At(c, "kfree2")
  /\ freelist' = run[c]
  /\ run' = [run EXCEPT ![c] = <<>>]
  /\ holder' = IF use_lock THEN 0 ELSE holder
  /\ GoTo(c, ret[c])
  /\ UNCHANGED <<ret, index, apVars, use_lock, owned, procs>>
-----------------------------------------------------------------------------
\* main(): kinit1() and kvmalloc(), and the tables and locks, with no other CPU
\* up and interrupts off.
main ==
  /\ At(1, "main")
  /\ freelist' = [i \in 1..NLOW-1 |-> NLOW + 1 - i]
  /\ owned' = [owned EXCEPT ![1] = 1]
  /\ pgdir' = [pgdir EXCEPT ![1] = "kpgdir"]
  /\ index' = 1 /\ GoTo(1, "startothers")
  /\ UNCHANGED <<param, stack, started, use_lock, holder, run, ret, procs>>

\* startothers(): the next CPU of the loop, and its stack.
startothers ==
  /\ At(1, "startothers")
  /\ index' = index + 1
  /\ IF index = NCPUS THEN GoTo(1, "kinit2") /\ UNCHANGED ret ELSE CallKalloc(1, "param")
  /\ UNCHANGED <<apVars, freelist, use_lock, holder, run, owned, procs>>

\* Stack, entry point and page directory for entryother.S ...
Param ==
  /\ At(1, "param")
  /\ param' = [stack |-> run[1][1], pgdir |-> "entrypgdir"]
  /\ GoTo(1, "lapicstartap")
  /\ UNCHANGED <<index, stack, pgdir, started, kmem, procs>>

\* ... the two STARTUPs, of which a CPU that is not halted ignores the second ...
lapicstartap ==
  /\ At(1, "lapicstartap")
  /\ pc' = [pc EXCEPT ![1] = "wait", ![index] = IF @ = "halted" THEN "start" ELSE @]
  /\ UNCHANGED <<index, apVars, kmem, procs>>

\* Faulty: the boot CPU goes on at once.
WaitStartedNot ==
  /\ At(1, "wait") /\ GoTo(1, "startothers")
  /\ UNCHANGED <<index, apVars, kmem, procs>>

\* ... and while(c->started == 0).
WaitStarted ==
  /\ At(1, "wait") /\ started[index]
  /\ GoTo(1, "startothers")
  /\ UNCHANGED <<index, apVars, kmem, procs>>

\* kinit2(): freerange() of the pages above, then use_lock = 1.
kinit2 ==
  /\ At(1, "kinit2")
  /\ LET p == NLOW + index - NCPUS IN
     IF p <= NPAGES
       THEN CallKfree(1, p, "kinit2") /\ index' = index + 1 /\ UNCHANGED use_lock
       ELSE use_lock' = TRUE /\ GoTo(1, "userinit") /\ UNCHANGED <<run, owned, ret, index>>
  /\ UNCHANGED <<apVars, freelist, holder, procs>>

\* userinit(): allocproc(), then the process becomes RUNNABLE.
userinit ==
  /\ At(1, "userinit") /\ CallKalloc(1, "runnable")
  /\ UNCHANGED <<index, apVars, freelist, use_lock, holder, run, owned, procs>>

userinitRunnable ==
  /\ At(1, "runnable")
  /\ pstate' = [pstate EXCEPT ![1] = "RUNNABLE"]
  /\ GoTo(1, "mpmain")
  /\ UNCHANGED <<index, apVars, kmem, cur, first, logReady>>

\* entryother.S: cr3, the stack, and the call of mpenter().
start(c) ==
  /\ At(c, "start")
  /\ pgdir' = [pgdir EXCEPT ![c] = param.pgdir]
  /\ GoTo(c, "start32")
  /\ UNCHANGED <<index, param, stack, started, kmem, procs>>

start32(c) ==
  /\ At(c, "start32")
  /\ stack' = [stack EXCEPT ![c] = param.stack]
  /\ GoTo(c, "mpenter")
  /\ UNCHANGED <<index, param, pgdir, started, kmem, procs>>

\* mpenter(): switchkvm() and what is set up for each CPU.
mpenter(c) ==
  /\ At(c, "mpenter")
  /\ pgdir' = [pgdir EXCEPT ![c] = "kpgdir"]
  /\ GoTo(c, "mpmain")
  /\ UNCHANGED <<index, param, stack, started, kmem, procs>>

\* mpmain(): started, and into scheduler().
mpmain(c) ==
  /\ At(c, "mpmain")
  /\ started' = [started EXCEPT ![c] = TRUE]
  /\ GoTo(c, "scheduler")
  /\ UNCHANGED <<index, param, stack, pgdir, kmem, procs>>
-----------------------------------------------------------------------------
\* scheduler() runs a process, which begins in forkret() when it is new.
scheduler(c, q) ==
  /\ At(c, "scheduler") /\ pstate[q] \in {"RUNNABLE", "READY"}
  /\ pstate' = [pstate EXCEPT ![q] = "RUNNING"]
  /\ cur' = [cur EXCEPT ![c] = q]
  /\ GoTo(c, IF pstate[q] = "RUNNABLE" THEN "forkret" ELSE "process")
  /\ UNCHANGED <<index, apVars, kmem, first, logReady>>

\* forkret(): the first process initialises the log ...
forkret(c) ==
  /\ At(c, "forkret")
  /\ first' = FALSE
  /\ GoTo(c, IF first THEN "initlog" ELSE "process")
  /\ UNCHANGED <<index, apVars, kmem, pstate, cur, logReady>>

\* ... which reads the disk, while others run.
initlog(c) ==
  /\ At(c, "initlog")
  /\ logReady' = TRUE /\ GoTo(c, "process")
  /\ UNCHANGED <<index, apVars, kmem, pstate, cur, first>>

\* A process takes or gives back memory, forks the other one, or gives up the CPU.
Grow(c) ==
  /\ At(c, "process") /\ CallKalloc(c, "process")
  /\ UNCHANGED <<index, apVars, freelist, use_lock, holder, run, owned, procs>>
Shrink(c) ==
  /\ At(c, "process")
  /\ \E p \in Page \ ({1} \cup {stack[d] : d \in Cpu}) : owned[p] > 0 /\ CallKfree(c, p, "process")
  /\ UNCHANGED <<index, apVars, freelist, use_lock, holder, procs>>
Fork(c) ==
  /\ At(c, "process") /\ pstate[2] = "UNUSED" /\ CallKalloc(c, "forked")
  /\ UNCHANGED <<index, apVars, freelist, use_lock, holder, run, owned, procs>>
Forked(c) ==
  /\ At(c, "forked")
  /\ pstate' = [pstate EXCEPT ![2] = IF run[c] = <<>> THEN @ ELSE "RUNNABLE"]
  /\ GoTo(c, "process")
  /\ UNCHANGED <<index, apVars, kmem, cur, first, logReady>>
Yield(c) ==
  /\ At(c, "process")
  /\ pstate' = [pstate EXCEPT ![cur[c]] = "READY"] /\ cur' = [cur EXCEPT ![c] = 0]
  /\ GoTo(c, "scheduler")
  /\ UNCHANGED <<index, apVars, kmem, first, logReady>>

Next ==
  \/ main \/ startothers \/ Param \/ lapicstartap \/ WaitStarted \/ kinit2
  \/ userinit \/ userinitRunnable
  \/ \E c \in Cpu :
       \/ kalloc(c) \/ kallocNext(c) \/ kfree(c) \/ kfreeNext(c)
       \/ start(c) \/ start32(c) \/ mpenter(c) \/ mpmain(c)
       \/ \E q \in Process : scheduler(c, q)
       \/ forkret(c) \/ initlog(c) \/ Grow(c) \/ Shrink(c) \/ Fork(c) \/ Forked(c) \/ Yield(c)

Spec == Init /\ [][Next]_bootVars
-----------------------------------------------------------------------------
\* Every CPU that startothers() starts gets a stack of its own, which is mapped
\* by the page directory it has at that time; no page is given out twice or
\* given out and free, although the allocator has no lock at first, and nobody is
\* in it when its lock is switched on (release() would panic); and processes make
\* system calls only when the log is there.
BootSound ==
  /\ \A c \in Cpu \ {1} : stack[c] # 0 =>
       /\ pgdir[c] = "entrypgdir" => stack[c] <= NLOW
       /\ \A d \in Cpu \ {c} : stack[c] # stack[d]
  /\ \A p \in Page : owned[p] + Len(SelectSeq(freelist, LAMBDA x : x = p)) <= 1
  /\ \A c \in Cpu : (At(c, "kalloc2") \/ At(c, "kfree2")) /\ use_lock => holder = c
  /\ \A c \in Cpu : At(c, "process") => logReady
=============================================================================
