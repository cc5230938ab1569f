-------------------------------- MODULE Proc --------------------------------
(***************************************************************************)
(* The life of processes: allocproc, fork, exit, wait, kill, scheduler,    *)
(* sched, yield, forkret, sleep (as wait calls it) and wakeup1 of          *)
(* xv6/proc.c, with the traps of xv6/trap.c that lead to them.             *)
(*                                                                         *)
(* ptable.lock is an atomic mutex (SpinLock.tla) held by a CPU, not by a   *)
(* process: it is handed from the process that calls sched() to the        *)
(* scheduler of its CPU and on to the next process.  Code that runs under  *)
(* the lock from acquire to release is one step; a process that calls      *)
(* sched() and its swtch() are two, because the process still runs on its  *)
(* kernel stack in between.  fork() writes the new slot without the lock,  *)
(* in steps of their own.                                                  *)
(***************************************************************************)
EXTENDS Naturals, FiniteSets

CONSTANTS NPROC,     \* slots of the process table
          CPU,       \* the processors
          NoCPU,     \* holder of a free ptable.lock
          MaxPid,    \* bound on nextpid
          KillPid    \* the arguments kill() is called with

ASSUME ProcAssumption ==
  /\ NPROC \in Nat \ {0}
  /\ NoCPU \notin CPU
  /\ MaxPid \in Nat \ {0}
  /\ KillPid \subseteq Nat \ {1}   \* init is not killed: exit() would panic

Slot == 1..NPROC
NoProc == 0                  \* the null struct proc*, and the scheduler's context
initproc == 1

VARIABLES
  state, pid, parent, chan, killed,  \* the fields of struct proc
  kstack,   \* has the slot a kernel stack?
  nextpid,
  lock,     \* the CPU that holds ptable.lock
  proc,     \* cpu->proc
  cur,      \* the context on the CPU's stack: a slot, or 0 for the scheduler
  mode,     \* "run"; "yield": spinning in yield(); "sched": about to swtch
  idx,      \* the slot at which the CPU's scheduler loop stands
  frame,    \* where the process is to resume: "none" if it is running
  pc,       \* what the process is doing, above that frame
  np        \* fork()'s local variable

vars == <<state, pid, parent, chan, killed, kstack, nextpid, lock, proc, cur,
          mode, idx, frame, pc, np>>

Null == Slot \cup {NoProc}
State == {"UNUSED", "EMBRYO", "SLEEPING", "RUNNABLE", "RUNNING", "ZOMBIE"}

TypeOK ==
  /\ state \in [Slot -> State]
  /\ pid \in [Slot -> Nat]
  /\ parent \in [Slot -> Null]
  /\ chan \in [Slot -> Null]
  /\ killed \in [Slot -> BOOLEAN]
  /\ kstack \in [Slot -> BOOLEAN]
  /\ nextpid \in Nat
  /\ lock \in CPU \cup {NoCPU}
  /\ proc \in [CPU -> Null]
  /\ cur \in [CPU -> Null]
  /\ mode \in [CPU -> {"run", "yield", "sched"}]
  /\ idx \in [CPU -> Null]
  /\ frame \in [Slot -> {"none", "forkret", "yield", "sleep", "exit"}]
  /\ pc \in [Slot -> {"user", "call", "kalloc", "copyuvm", "parent", "runnable", "wait", "exit"}]
  /\ np \in [Slot -> Null]

\* main() has run userinit(): one process, initproc, ready for forkret(), and
\* every CPU enters scheduler().
Init ==
  /\ state = [s \in Slot |-> IF s = initproc THEN "RUNNABLE" ELSE "UNUSED"]
  /\ pid = [s \in Slot |-> IF s = initproc THEN 1 ELSE 0]
  /\ parent = [s \in Slot |-> NoProc]
  /\ chan = [s \in Slot |-> NoProc]
  /\ killed = [s \in Slot |-> FALSE]
  /\ kstack = [s \in Slot |-> s = initproc]
  /\ nextpid = 2
  /\ lock = NoCPU
  /\ proc = [c \in CPU |-> NoProc]
  /\ cur = [c \in CPU |-> NoProc]
  /\ mode = [c \in CPU |-> "run"]
  /\ idx = [c \in CPU |-> NoProc]
  /\ frame = [s \in Slot |-> IF s = initproc THEN "forkret" ELSE "none"]
  /\ pc = [s \in Slot |-> "user"]
  /\ np = [s \in Slot |-> NoProc]

-----------------------------------------------------------------------------
\* Process p executes its own code, at pc, on CPU c.
Runs(c, p) == cur[c] = p /\ mode[c] = "run" /\ frame[p] = "none"
At(c, p, label) == Runs(c, p) /\ pc[p] = label
GoTo(p, label) == pc' = [pc EXCEPT ![p] = label]

\* The variables of the table, and those of the processors.
cpuVars == <<proc, cur, mode, idx>>

\* The first slot of S in table order.
First(S) == CHOOSE s \in S : \A t \in S : s <= t

\* wakeup1(chan), as the value of state afterwards.
Wakeup1(st, c) ==
  [s \in Slot |-> IF st[s] = "SLEEPING" /\ chan[s] = c THEN "RUNNABLE" ELSE st[s]]

\* scheduler()'s for loop resumed behind slot i with ptable.lock held: swtch
\* to the next RUNNABLE process, or release the lock at the end of the table.
Scan(c, i) ==
  LET ready == {s \in Slot : s > i /\ state[s] = "RUNNABLE"} IN
  IF ready # {}
    THEN LET p == First(ready) IN
         /\ proc' = [proc EXCEPT ![c] = p]
         /\ state' = [state EXCEPT ![p] = "RUNNING"]
         /\ cur' = [cur EXCEPT ![c] = p]
         /\ idx' = [idx EXCEPT ![c] = p]
         /\ lock' = c
    ELSE /\ proc' = [proc EXCEPT ![c] = NoProc]
         /\ idx' = [idx EXCEPT ![c] = NoProc]
         /\ lock' = NoCPU
         /\ UNCHANGED <<state, cur>>

\* The top of scheduler()'s for(;;): acquire(&ptable.lock) and the scan.
Scheduler(c) ==
  /\ cur[c] = NoProc /\ idx[c] = NoProc /\ lock = NoCPU
  /\ Scan(c, NoProc)
  /\ UNCHANGED <<pid, parent, chan, killed, kstack, nextpid, mode, frame, pc, np>>

\* Faulty: the search starts at the first slot again after every process.
SchedulerRestarts(c) ==
  /\ cur[c] = NoProc /\ idx[c] # NoProc
  /\ Scan(c, NoProc)
  /\ UNCHANGED <<pid, parent, chan, killed, kstack, nextpid, mode, frame, pc, np>>

\* scheduler() after the swtch back to it: c->proc = 0, next slot.
SchedulerNext(c) ==
  /\ cur[c] = NoProc /\ idx[c] # NoProc
  /\ Scan(c, idx[c])
  /\ UNCHANGED <<pid, parent, chan, killed, kstack, nextpid, mode, frame, pc, np>>

\* sched()'s swtch to the scheduler of this CPU.
Swtch(c) ==
  /\ mode[c] = "sched"
  /\ mode' = [mode EXCEPT ![c] = "run"]
  /\ cur' = [cur EXCEPT ![c] = NoProc]
  /\ UNCHANGED <<state, pid, parent, chan, killed, kstack, nextpid, lock, proc,
                 idx, frame, pc, np>>

\* The process enters sched() with p->state set and the lock held.
Sched(c, p, fr) ==
  /\ lock' = c
  /\ mode' = [mode EXCEPT ![c] = "sched"]
  /\ frame' = [frame EXCEPT ![p] = fr]

\* A clock interrupt, possible wherever the process holds no lock: trap()
\* calls yield(), unless it finds a process killed in user mode (Killed) ...
Timer(c) ==
  /\ cur[c] # NoProc /\ Runs(c, cur[c])
  /\ pc[cur[c]] = "user" => ~killed[cur[c]]
  /\ mode' = [mode EXCEPT ![c] = "yield"]
  /\ UNCHANGED <<state, pid, parent, chan, killed, kstack, nextpid, lock, proc,
                 cur, idx, frame, pc, np>>

\* Faulty: yield() that does not keep ptable.lock across sched().
YieldUnlocked(c) ==
  /\ mode[c] = "yield" /\ lock = NoCPU
  /\ state' = [state EXCEPT ![proc[c]] = "RUNNABLE"]
  /\ mode' = [mode EXCEPT ![c] = "sched"]
  /\ frame' = [frame EXCEPT ![proc[c]] = "yield"]
  /\ UNCHANGED <<pid, parent, chan, killed, kstack, nextpid, lock, proc, cur, idx, pc, np>>

\* ... which acquires ptable.lock, sets RUNNABLE and calls sched().
Yield(c) ==
  /\ mode[c] = "yield" /\ lock = NoCPU
  /\ state' = [state EXCEPT ![proc[c]] = "RUNNABLE"]
  /\ Sched(c, proc[c], "yield")
  /\ UNCHANGED <<pid, parent, chan, killed, kstack, nextpid, proc, cur, idx, pc, np>>

\* The return from sched() in yield(), or the start in forkret(): release.
Return(c, p) ==
  /\ cur[c] = p /\ mode[c] = "run" /\ frame[p] \in {"yield", "forkret"}
  /\ frame' = [frame EXCEPT ![p] = "none"]
  /\ lock' = NoCPU
  /\ UNCHANGED <<state, pid, parent, chan, killed, kstack, nextpid, cpuVars, pc, np>>

-----------------------------------------------------------------------------
\* A system call traps; trap() tests killed now, and the call runs later: kill()
\* may come between the two.
Trap(c, p) ==
  /\ At(c, p, "user") /\ ~killed[p]
  /\ GoTo(p, "call")
  /\ UNCHANGED <<state, pid, parent, chan, killed, kstack, nextpid, lock, cpuVars, frame, np>>

\* trap() finds the process killed, on its way in from user mode or back to it,
\* and calls exit().  A process in user mode is interrupted sooner or later.
Killed(c, p) ==
  /\ At(c, p, "user") /\ killed[p] /\ p # initproc
  /\ GoTo(p, "exit")
  /\ UNCHANGED <<state, pid, parent, chan, killed, kstack, nextpid, lock, cpuVars, frame, np>>

\* A fault of the program: trap() sets killed and calls exit().
Fault(c, p) ==
  /\ At(c, p, "user") /\ p # initproc
  /\ killed' = [killed EXCEPT ![p] = TRUE]
  /\ GoTo(p, "exit")
  /\ UNCHANGED <<state, pid, parent, chan, kstack, nextpid, lock, cpuVars, frame, np>>

\* fork() calls allocproc(): the first UNUSED slot becomes an EMBRYO with a new
\* pid, or fork fails.
Fork(c, p) ==
  /\ At(c, p, "call") /\ lock = NoCPU /\ nextpid <= MaxPid
  /\ LET free == {s \in Slot : state[s] = "UNUSED"} IN
     IF free = {}
       THEN GoTo(p, "user") /\ UNCHANGED <<state, pid, nextpid, np>>
       ELSE /\ state' = [state EXCEPT ![First(free)] = "EMBRYO"]
            /\ pid' = [pid EXCEPT ![First(free)] = nextpid]
            /\ nextpid' = nextpid + 1
            /\ np' = [np EXCEPT ![p] = First(free)]
            /\ GoTo(p, "kalloc")
  /\ UNCHANGED <<parent, chan, killed, kstack, lock, cpuVars, frame>>

\* allocproc() allocates the kernel stack, without the lock; when kalloc()
\* fails the slot is given up.
ForkKalloc(c, p) ==
  /\ At(c, p, "kalloc")
  /\ \/ /\ kstack' = [kstack EXCEPT ![np[p]] = TRUE]
        /\ frame' = [frame EXCEPT ![np[p]] = "forkret"]
        /\ GoTo(p, "copyuvm")
        /\ UNCHANGED <<state, np>>
     \/ /\ state' = [state EXCEPT ![np[p]] = "UNUSED"]
        /\ np' = [np EXCEPT ![p] = NoProc]
        /\ GoTo(p, "user")
        /\ UNCHANGED <<kstack, frame>>
  /\ UNCHANGED <<pid, parent, chan, killed, nextpid, lock, cpuVars>>

\* Faulty: fork() that returns -1 without giving the slot up.
ForkCopyLeaks(c, p) ==
  /\ At(c, p, "copyuvm")
  /\ \/ GoTo(p, "parent") /\ UNCHANGED <<kstack, np>>
     \/ /\ kstack' = [kstack EXCEPT ![np[p]] = FALSE]
        /\ np' = [np EXCEPT ![p] = NoProc]
        /\ GoTo(p, "user")
  /\ UNCHANGED <<state, pid, parent, chan, killed, nextpid, lock, cpuVars, frame>>

\* fork() copies the address space; when copyuvm() fails the stack is freed and
\* the slot given up.
ForkCopy(c, p) ==
  /\ At(c, p, "copyuvm")
  /\ \/ GoTo(p, "parent") /\ UNCHANGED <<state, kstack, np>>
     \/ /\ kstack' = [kstack EXCEPT ![np[p]] = FALSE]
        /\ state' = [state EXCEPT ![np[p]] = "UNUSED"]
        /\ np' = [np EXCEPT ![p] = NoProc]
        /\ GoTo(p, "user")
  /\ UNCHANGED <<pid, parent, chan, killed, nextpid, lock, cpuVars, frame>>

\* np->parent = curproc and the child's trap frame, without the lock; files and
\* cwd are duplicated.
ForkParent(c, p) ==
  /\ At(c, p, "parent")
  /\ parent' = [parent EXCEPT ![np[p]] = p]
  /\ pc' = [pc EXCEPT ![p] = "runnable", ![np[p]] = "user"]
  /\ UNCHANGED <<state, pid, chan, killed, kstack, nextpid, lock, cpuVars, frame, np>>

\* The child is made RUNNABLE under the lock, and fork returns its pid.
ForkRunnable(c, p) ==
  /\ At(c, p, "runnable") /\ lock = NoCPU
  /\ state' = [state EXCEPT ![np[p]] = "RUNNABLE"]
  /\ GoTo(p, "user")
  /\ np' = [np EXCEPT ![p] = NoProc]
  /\ UNCHANGED <<pid, parent, chan, killed, kstack, nextpid, lock, cpuVars, frame>>

\* The process calls exit(): its files are closed and its directory put, the
\* lock not held.  init never exits.
CallExit(c, p) ==
  /\ At(c, p, "call") /\ p # initproc
  /\ GoTo(p, "exit")
  /\ UNCHANGED <<state, pid, parent, chan, killed, kstack, nextpid, lock, cpuVars, frame, np>>

\* Faulty: exit() that does not pass its children on.
ExitForgetsChildren(c, p) ==
  /\ At(c, p, "exit") /\ lock = NoCPU
  /\ state' = [Wakeup1(state, parent[p]) EXCEPT ![p] = "ZOMBIE"]
  /\ Sched(c, p, "exit")
  /\ UNCHANGED <<pid, parent, chan, killed, kstack, nextpid, proc, cur, idx, pc, np>>

\* exit() under the lock: wake the parent, give the children to init (waking
\* init if one is a ZOMBIE), become a ZOMBIE and call sched() for ever.
Exit(c, p) ==
  /\ At(c, p, "exit") /\ lock = NoCPU
  /\ LET woken == Wakeup1(state, parent[p])
         mine == {s \in Slot : parent[s] = p}
         all == IF \E s \in mine : state[s] = "ZOMBIE"
                  THEN Wakeup1(woken, initproc) ELSE woken
     IN  state' = [all EXCEPT ![p] = "ZOMBIE"]
  /\ parent' = [s \in Slot |-> IF parent[s] = p THEN initproc ELSE parent[s]]
  /\ Sched(c, p, "exit")
  /\ UNCHANGED <<pid, chan, killed, kstack, nextpid, proc, cur, idx, pc, np>>

\* wait()'s loop body with the lock held: free the first ZOMBIE child and
\* return, or return -1, or sleep(curproc, &ptable.lock).
WaitBody(c, p) ==
  LET kids == {s \in Slot : parent[s] = p}
      zombies == {s \in kids : state[s] = "ZOMBIE"}
  IN \/ /\ zombies # {}
        /\ LET z == First(zombies) IN
           /\ state' = [state EXCEPT ![z] = "UNUSED"]
           /\ pid' = [pid EXCEPT ![z] = 0]
           /\ parent' = [parent EXCEPT ![z] = NoProc]
           /\ killed' = [killed EXCEPT ![z] = FALSE]
           /\ kstack' = [kstack EXCEPT ![z] = FALSE]
        /\ frame' = [frame EXCEPT ![p] = "none"]
        /\ chan' = [chan EXCEPT ![p] = NoProc]
        /\ lock' = NoCPU
        /\ GoTo(p, "user")
        /\ UNCHANGED mode
     \/ /\ zombies = {} /\ (kids = {} \/ killed[p])
        /\ frame' = [frame EXCEPT ![p] = "none"]
        /\ chan' = [chan EXCEPT ![p] = NoProc]
        /\ lock' = NoCPU
        /\ GoTo(p, "user")
        /\ UNCHANGED <<state, pid, parent, killed, kstack, mode>>
     \/ /\ zombies = {} /\ kids # {} /\ ~killed[p]
        /\ chan' = [chan EXCEPT ![p] = p]
        /\ state' = [state EXCEPT ![p] = "SLEEPING"]
        /\ Sched(c, p, "sleep")
        /\ GoTo(p, "wait")
        /\ UNCHANGED <<pid, parent, killed, kstack>>

\* wait() is called ...
Wait(c, p) ==
  /\ At(c, p, "call") /\ lock = NoCPU
  /\ WaitBody(c, p)
  /\ UNCHANGED <<nextpid, proc, cur, idx, np>>

\* ... or comes back from sleep(), the lock still held by the scheduler's CPU.
WaitAgain(c, p) ==
  /\ cur[c] = p /\ mode[c] = "run" /\ frame[p] = "sleep"
  /\ WaitBody(c, p)
  /\ UNCHANGED <<nextpid, proc, cur, idx, np>>

\* Faulty: kill() that does not wake its target.
KillNoWake(c, p, k) ==
  /\ At(c, p, "call") /\ lock = NoCPU
  /\ LET hit == {s \in Slot : pid[s] = k} IN
     IF hit = {}
       THEN UNCHANGED killed
       ELSE killed' = [killed EXCEPT ![First(hit)] = TRUE]
  /\ GoTo(p, "user")
  /\ UNCHANGED <<state, pid, parent, chan, kstack, nextpid, lock, cpuVars, frame, np>>

\* kill(k): the first slot with that pid, whatever its state, or -1.
Kill(c, p, k) ==
  /\ At(c, p, "call") /\ lock = NoCPU
  /\ LET hit == {s \in Slot : pid[s] = k} IN
     IF hit = {}
       THEN UNCHANGED <<killed, state>>
       ELSE LET t == First(hit) IN
            /\ killed' = [killed EXCEPT ![t] = TRUE]
            /\ state' = [state EXCEPT ![t] = IF @ = "SLEEPING" THEN "RUNNABLE" ELSE @]
  /\ GoTo(p, "user")
  /\ UNCHANGED <<pid, parent, chan, kstack, nextpid, lock, cpuVars, frame, np>>

-----------------------------------------------------------------------------
Syscall(c, p) ==
  Fork(c, p) \/ CallExit(c, p) \/ Wait(c, p) \/ \E k \in KillPid : Kill(c, p, k)

\* What a CPU does sooner or later: everything but the clock and what a program
\* chooses to do.
CpuStep(c) ==
  \/ Scheduler(c) \/ SchedulerNext(c) \/ Swtch(c) \/ Yield(c)
  \/ \E p \in Slot :
       \/ Return(c, p) \/ WaitAgain(c, p) \/ Killed(c, p) \/ Exit(c, p) \/ Syscall(c, p)
       \/ ForkKalloc(c, p) \/ ForkCopy(c, p) \/ ForkParent(c, p) \/ ForkRunnable(c, p)

Next ==
  \E c \in CPU :
    CpuStep(c) \/ Timer(c) \/ \E p \in Slot : Trap(c, p) \/ Fault(c, p)

Spec == Init /\ [][Next]_vars

\* CPUs execute instructions and the clock ticks.  Weak fairness only: a CPU
\* that spins on ptable.lock may lose the race to another for ever.
FairSpec ==
  Spec /\ \A c \in CPU : WF_vars(CpuStep(c)) /\ WF_vars(Timer(c))

\* A process that is given a CPU again and again also executes instructions
\* there: the clock does not tick between every two of them.
Progress(p) ==
  \E c \in CPU :
    \/ Killed(c, p) \/ Exit(c, p) \/ Syscall(c, p)
    \/ ForkKalloc(c, p) \/ ForkCopy(c, p) \/ ForkParent(c, p) \/ ForkRunnable(c, p)

ProgressSpec == FairSpec /\ \A p \in Slot : SF_vars(Progress(p))

-----------------------------------------------------------------------------
Live(s) == state[s] \notin {"UNUSED", "EMBRYO"}

\* scheduler()/sched() hand ptable.lock across swtch(): no process, and no
\* kernel stack, is ever on two CPUs, and a CPU that is not inside sched()
\* runs a RUNNING process, the one c->proc names, whose stack is not freed.
OneCPU ==
  /\ \A c, d \in CPU : c # d /\ cur[c] = cur[d] => cur[c] = NoProc
  /\ \A c \in CPU : cur[c] # NoProc =>
       /\ proc[c] = cur[c]
       /\ kstack[cur[c]]
       /\ state[cur[c]] = "RUNNING" \/ (mode[c] = "sched" /\ lock = c)

\* "Jump into the scheduler, never to return": no process that has exited is
\* resumed (panic "zombie exit"), although its slot and stack are used again.
ZombiesStayDead ==
  \A c \in CPU : cur[c] # NoProc /\ frame[cur[c]] = "exit" => mode[c] = "sched"

\* "Pass abandoned children to init": although fork() writes np->parent without
\* the lock, the parent of a process is never a free slot, an EMBRYO or a
\* ZOMBIE, so somebody can still wait for it.
NoOrphans ==
  \A s \in Slot : Live(s) /\ s # initproc =>
    /\ parent[s] \in Slot \ {s}
    /\ Live(parent[s]) /\ state[parent[s]] # "ZOMBIE"

\* exit()'s wakeup1 and wait()'s test share ptable.lock: no process sleeps in
\* wait() with a ZOMBIE child to collect, with no child at all, or killed.
WaitersNotForgotten ==
  \A s \in Slot : state[s] = "SLEEPING" =>
    /\ ~killed[s]
    /\ \E t \in Slot : parent[t] = s /\ state[t] # "UNUSED"
    /\ \A t \in Slot : parent[t] = s => state[t] # "ZOMBIE"

\* allocproc()/fork(): a slot taken out of UNUSED belongs to exactly one fork()
\* in progress, whichever of its steps fail; no slot and no kernel stack leaks.
NoSlotLeaks ==
  /\ \A s \in Slot : state[s] = "EMBRYO" => \E p \in Slot : np[p] = s /\ Live(p)
  /\ \A p, q \in Slot : p # q /\ np[p] = np[q] => np[p] = NoProc
  /\ \A s \in Slot : kstack[s] => state[s] # "UNUSED"
  /\ \A s \in Slot : Live(s) => kstack[s]

\* nextpid++ under the lock: slots in use have distinct pids, none of them 0,
\* so kill() can mean one process at most.
PidsUnique ==
  \A s, t \in Slot : state[s] # "UNUSED" /\ state[t] # "UNUSED" =>
    pid[s] # 0 /\ (pid[s] = pid[t] => s = t)

\* What swtch() and the hand-over of ptable.lock promise of stacks and CPUs.
StacksSound == TypeOK /\ OneCPU /\ ZombiesStayDead

\* What exit(), wait() and fork() together promise of parents and children.
FamiliesSound == NoOrphans /\ WaitersNotForgotten

\* What allocproc(), a fork() that fails half-way and wait() promise of slots.
SlotsSound == NoSlotLeaks /\ PidsUnique

\* The round of scheduler() through the table starves nobody: a RUNNABLE
\* process gets a CPU, however many others stay RUNNABLE.
RunnableRuns == \A s \in Slot : state[s] = "RUNNABLE" ~> state[s] = "RUNNING"

\* wait() that sleeps returns once a child of the caller is a ZOMBIE.
WaitReturns ==
  \A s \in Slot :
    (/\ frame[s] = "sleep"
     /\ \E t \in Slot : parent[t] = s /\ state[t] = "ZOMBIE") ~> frame[s] = "none"

\* What scheduler(), exit() and wait() promise to a process that waits for a CPU
\* or for a child.
ProcessesProgress == RunnableRuns /\ WaitReturns

\* kill() is not lost on a process that sleeps, waits for a CPU, runs, or is
\* inside a system call: it gets as far as exit().
KilledExits ==
  \A s \in Slot : killed[s] /\ Live(s) ~> pc[s] = "exit" \/ ~Live(s)
=============================================================================
