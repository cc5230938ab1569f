------------------------------ MODULE SpinLock ------------------------------
(***************************************************************************)
(* xv6/spinlock.c: acquire, release, holding, pushcli and popcli, run by   *)
(* several CPUs whose kernel code can be interrupted whenever FL_IF is on. *)
(* Every load and store of the lock word (lk->locked) and of the owner     *)
(* field (lk->cpu) is a step of its own; code that only touches per-CPU    *)
(* data with interrupts off is one step.                                   *)
(*                                                                         *)
(* A CPU runs a stack of contexts: context 0 is the kernel thread and      *)
(* context k+1 an interrupt handler that preempted context k.              *)
(***************************************************************************)
EXTENDS Naturals

CONSTANTS CPU,       \* the processors
          Lock,      \* the spin locks
          NoCPU,     \* lk->cpu of a free lock (0 in C)
          NoLock,    \* argument of a context that is in no lock function
          MayNest,   \* <<l, m>>: some kernel path acquires m while it holds l
          MaxDepth   \* bound on nested interrupts

ASSUME LockAssumption ==
  /\ NoCPU \notin CPU
  /\ NoLock \notin Lock
  /\ MaxDepth \in Nat
  /\ MayNest \subseteq Lock \X Lock
  /\ \A l \in Lock : <<l, l>> \notin MayNest

VARIABLES
  locked,  \* lk->locked
  cpu,     \* lk->cpu
  ncli,    \* cpu->ncli, depth of pushcli nesting
  intena,  \* cpu->intena, were interrupts on before the outermost pushcli?
  iflag,     \* FL_IF of the processor's eflags
  level,   \* index of the context the processor is running
  pc,      \* where in spinlock.c each context is; "run" is outside it
  call,    \* the function the context is in
  lk,      \* the argument of that function
  eflags,  \* pushcli's local variable
  held     \* the locks the context has acquired and not yet released

vars == <<locked, cpu, ncli, intena, iflag, level, pc, call, lk, eflags, held>>

Level == 0..MaxDepth
Label == {"run", "cli", "holding", "holding2", "spin", "setcpu",
          "clearcpu", "unlock", "popcli", "panic"}

TypeOK ==
  /\ locked \in [Lock -> BOOLEAN]
  /\ cpu \in [Lock -> CPU \cup {NoCPU}]
  /\ ncli \in [CPU -> Nat]
  /\ intena \in [CPU -> BOOLEAN]
  /\ iflag \in [CPU -> BOOLEAN]
  /\ level \in [CPU -> Level]
  /\ pc \in [CPU -> [Level -> Label]]
  /\ call \in [CPU -> [Level -> {"none", "acquire", "release"}]]
  /\ lk \in [CPU -> [Level -> Lock \cup {NoLock}]]
  /\ eflags \in [CPU -> [Level -> BOOLEAN]]
  /\ held \in [CPU -> [Level -> SUBSET Lock]]

\* initlock() on every lock; a CPU boots with interrupts off.
Init ==
  /\ locked = [l \in Lock |-> FALSE]
  /\ cpu = [l \in Lock |-> NoCPU]
  /\ ncli = [c \in CPU |-> 0]
  /\ intena = [c \in CPU |-> FALSE]
  /\ iflag = [c \in CPU |-> FALSE]
  /\ level = [c \in CPU |-> 0]
  /\ pc = [c \in CPU |-> [k \in Level |-> "run"]]
  /\ call = [c \in CPU |-> [k \in Level |-> "none"]]
  /\ lk = [c \in CPU |-> [k \in Level |-> NoLock]]
  /\ eflags = [c \in CPU |-> [k \in Level |-> FALSE]]
  /\ held = [c \in CPU |-> [k \in Level |-> {}]]

-----------------------------------------------------------------------------
At(c, label) == pc[c][level[c]] = label
GoTo(c, label) == pc' = [pc EXCEPT ![c][level[c]] = label]
Arg(c) == lk[c][level[c]]

\* The context enters acquire(l); pushcli() reads eflags.
AcquireCall(c, l) ==
  /\ At(c, "run")
  /\ \A m \in held[c][level[c]] : <<m, l>> \in MayNest
  /\ call' = [call EXCEPT ![c][level[c]] = "acquire"]
  /\ lk' = [lk EXCEPT ![c][level[c]] = l]
  /\ eflags' = [eflags EXCEPT ![c][level[c]] = iflag[c]]
  /\ GoTo(c, "cli")
  /\ UNCHANGED <<locked, cpu, ncli, intena, iflag, level, held>>

\* Faulty variants of the step below, for the mutation runs: pushcli without
\* cli, and pushcli that overwrites intena in a nested call.
PushcliNoCli(c) ==
  /\ At(c, "cli")
  /\ intena' = IF ncli[c] = 0
                 THEN [intena EXCEPT ![c] = eflags[c][level[c]]]
                 ELSE intena
  /\ ncli' = [ncli EXCEPT ![c] = @ + 1]
  /\ GoTo(c, "holding")
  /\ UNCHANGED <<locked, cpu, iflag, level, call, lk, eflags, held>>

PushcliForgets(c) ==
  /\ At(c, "cli")
  /\ iflag' = [iflag EXCEPT ![c] = FALSE]
  /\ intena' = [intena EXCEPT ![c] = eflags[c][level[c]]]
  /\ ncli' = [ncli EXCEPT ![c] = @ + 1]
  /\ GoTo(c, "holding")
  /\ UNCHANGED <<locked, cpu, level, call, lk, eflags, held>>

\* The rest of pushcli(): cli, remember the flag of the outermost call, count.
Pushcli(c) ==
  /\ At(c, "cli")
  /\ iflag' = [iflag EXCEPT ![c] = FALSE]
  /\ intena' = IF ncli[c] = 0
                 THEN [intena EXCEPT ![c] = eflags[c][level[c]]]
                 ELSE intena
  /\ ncli' = [ncli EXCEPT ![c] = @ + 1]
  /\ GoTo(c, "holding")
  /\ UNCHANGED <<locked, cpu, level, call, lk, eflags, held>>

\* What acquire and release do with the result of holding(lk).
Holding(c, r) ==
  GoTo(c, IF call[c][level[c]] = "acquire"
            THEN IF r THEN "panic" ELSE "spin"
            ELSE IF r THEN "clearcpu" ELSE "panic")

\* holding(): the load of lk->locked, then (&&) the load of lk->cpu.  Its own
\* pushcli/popcli pair is nested in the caller's and changes nothing.
HoldingLocked(c) ==
  /\ At(c, "holding")
  /\ IF locked[Arg(c)] THEN GoTo(c, "holding2") ELSE Holding(c, FALSE)
  /\ UNCHANGED <<locked, cpu, ncli, intena, iflag, level, call, lk, eflags, held>>

HoldingCpu(c) ==
  /\ At(c, "holding2")
  /\ Holding(c, cpu[Arg(c)] = c)
  /\ UNCHANGED <<locked, cpu, ncli, intena, iflag, level, call, lk, eflags, held>>

\* Faulty: xchg replaced by a load and a store that do not exclude each other.
XchgNotAtomic(c) ==
  /\ At(c, "spin")
  /\ ~locked[Arg(c)] \/ cpu[Arg(c)] = NoCPU
  /\ locked' = [locked EXCEPT ![Arg(c)] = TRUE]
  /\ GoTo(c, "setcpu")
  /\ UNCHANGED <<cpu, ncli, intena, iflag, level, call, lk, eflags, held>>

\* The xchg that succeeds; one that fails leaves locked = 1 and loops.
Xchg(c) ==
  /\ At(c, "spin")
  /\ ~locked[Arg(c)]
  /\ locked' = [locked EXCEPT ![Arg(c)] = TRUE]
  /\ GoTo(c, "setcpu")
  /\ UNCHANGED <<cpu, ncli, intena, iflag, level, call, lk, eflags, held>>

\* lk->cpu = mycpu(): acquire() returns.
SetCpu(c) ==
  /\ At(c, "setcpu")
  /\ cpu' = [cpu EXCEPT ![Arg(c)] = c]
  /\ held' = [held EXCEPT ![c][level[c]] = @ \cup {Arg(c)}]
  /\ call' = [call EXCEPT ![c][level[c]] = "none"]
  /\ lk' = [lk EXCEPT ![c][level[c]] = NoLock]
  /\ GoTo(c, "run")
  /\ UNCHANGED <<locked, ncli, intena, iflag, level, eflags>>

\* The context enters release(l) for a lock it holds, not always the last one
\* it took: sleep() acquires ptable.lock and then releases its caller's lock.
ReleaseCall(c, l) ==
  /\ At(c, "run")
  /\ l \in held[c][level[c]]
  /\ call' = [call EXCEPT ![c][level[c]] = "release"]
  /\ lk' = [lk EXCEPT ![c][level[c]] = l]
  /\ GoTo(c, "holding")
  /\ UNCHANGED <<locked, cpu, ncli, intena, iflag, level, eflags, held>>

\* Faulty: release() that leaves its CPU in lk->cpu.
ClearCpuNot(c) ==
  /\ At(c, "clearcpu")
  /\ held' = [held EXCEPT ![c][level[c]] = @ \ {Arg(c)}]
  /\ GoTo(c, "unlock")
  /\ UNCHANGED <<locked, cpu, ncli, intena, iflag, level, call, lk, eflags>>

\* lk->cpu = 0.
ClearCpu(c) ==
  /\ At(c, "clearcpu")
  /\ cpu' = [cpu EXCEPT ![Arg(c)] = NoCPU]
  /\ held' = [held EXCEPT ![c][level[c]] = @ \ {Arg(c)}]
  /\ GoTo(c, "unlock")
  /\ UNCHANGED <<locked, ncli, intena, iflag, level, call, lk, eflags>>

\* movl $0, lk->locked.
Unlock(c) ==
  /\ At(c, "unlock")
  /\ locked' = [locked EXCEPT ![Arg(c)] = FALSE]
  /\ GoTo(c, "popcli")
  /\ UNCHANGED <<cpu, ncli, intena, iflag, level, call, lk, eflags, held>>

\* popcli() and the return from release().
Popcli(c) ==
  /\ At(c, "popcli")
  /\ IF iflag[c] \/ ncli[c] = 0
       THEN GoTo(c, "panic") /\ UNCHANGED <<ncli, iflag>>
       ELSE /\ ncli' = [ncli EXCEPT ![c] = @ - 1]
            /\ iflag' = [iflag EXCEPT ![c] = ncli[c] = 1 /\ intena[c]]
            /\ GoTo(c, "run")
  /\ call' = [call EXCEPT ![c][level[c]] = "none"]
  /\ lk' = [lk EXCEPT ![c][level[c]] = NoLock]
  /\ UNCHANGED <<locked, cpu, intena, level, eflags, held>>

\* The kernel thread turns interrupts on: scheduler()'s sti, at each loop.
Sti(c) ==
  /\ level[c] = 0 /\ At(c, "run") /\ held[c][0] = {}
  /\ iflag' = [iflag EXCEPT ![c] = TRUE]
  /\ UNCHANGED <<locked, cpu, ncli, intena, level, pc, call, lk, eflags, held>>

\* The hardware delivers an interrupt through an interrupt gate (FL_IF off)...
Interrupt(c) ==
  /\ iflag[c] /\ level[c] < MaxDepth
  /\ iflag' = [iflag EXCEPT ![c] = FALSE]
  /\ level' = [level EXCEPT ![c] = @ + 1]
  /\ UNCHANGED <<locked, cpu, ncli, intena, pc, call, lk, eflags, held>>

\* ... and the handler, every lock it took released, returns with iret.
Iret(c) ==
  /\ level[c] > 0 /\ At(c, "run") /\ held[c][level[c]] = {}
  /\ iflag' = [iflag EXCEPT ![c] = TRUE]
  /\ level' = [level EXCEPT ![c] = @ - 1]
  /\ UNCHANGED <<locked, cpu, ncli, intena, pc, call, lk, eflags, held>>

\* The steps inside spinlock.c.
LockStep(c) ==
  \/ Pushcli(c) \/ HoldingLocked(c) \/ HoldingCpu(c) \/ Xchg(c) \/ SetCpu(c)
  \/ ClearCpu(c) \/ Unlock(c) \/ Popcli(c)

Next ==
  \E c \in CPU :
    \/ LockStep(c)
    \/ \E l \in Lock : AcquireCall(c, l) \/ ReleaseCall(c, l)
    \/ Sti(c) \/ Interrupt(c) \/ Iret(c)

Spec == Init /\ [][Next]_vars

\* A processor keeps executing instructions, and every critical section of the
\* kernel is a finite path that ends in release().  Nothing is assumed about
\* who wins the xchg.
Fairness ==
  \A c \in CPU :
    /\ WF_vars(LockStep(c))
    /\ WF_vars(Iret(c))
    /\ \A l \in Lock : SF_vars(ReleaseCall(c, l))

FairSpec == Spec /\ Fairness

-----------------------------------------------------------------------------
\* Context k of CPU c owns lock l: from the xchg that took it to the store
\* that frees it.
Owns(c, k, l) ==
  \/ l \in held[c][k]
  \/ lk[c][k] = l /\ pc[c][k] \in {"setcpu", "unlock"}

\* acquire()/release(): no two contexts, on the same or on different CPUs, are
\* ever between acquire(l) and release(l) of the same lock.
MutualExclusion ==
  \A c, d \in CPU, k, j \in Level, l \in Lock :
    Owns(c, k, l) /\ Owns(d, j, l) => c = d /\ k = j

\* holding() never errs: although it loads lk->locked and lk->cpu without the
\* lock, and other CPUs store them meanwhile, none of the panics "acquire",
\* "release", "popcli - interruptible" and "popcli" is reachable.
NoPanic == \A c \in CPU, k \in Level : pc[c][k] # "panic"

\* pushcli() before the xchg: the context that owns a lock runs with
\* interrupts off and is never preempted by a handler on its own CPU.
OwnerNotInterrupted ==
  \A c \in CPU, k \in Level, l \in Lock :
    Owns(c, k, l) => ~iflag[c] /\ ncli[c] > 0 /\ level[c] = k

\* "disable interrupts to avoid deadlock": no CPU spins on a lock that one of
\* its own contexts owns.
NoSelfDeadlock ==
  \A c \in CPU, k, j \in Level, l \in Lock :
    pc[c][k] = "spin" /\ lk[c][k] = l => ~Owns(c, j, l)

\* "if interrupts are off, then pushcli, popcli leaves them off": a handler,
\* entered with interrupts off, is never itself interrupted, whatever locks it
\* takes and releases.
HandlersNotPreempted == \A c \in CPU : level[c] > 0 => ~iflag[c]

\* "it takes two popcli to undo two pushcli": once a kernel thread has turned
\* interrupts on, it finds them on whenever its pushcli are all undone.
FlagRestored ==
  \A c \in CPU :
    [](level[c] = 0 /\ ncli[c] = 0 /\ iflag[c]
         => [](level[c] = 0 /\ ncli[c] = 0 => iflag[c]))

\* acquire() under the lock order never brings the CPUs to a standstill: from
\* some point on no lock is taken, or locks are released for ever.
NoStandstill ==
  \/ <>[](\A l \in Lock : ~locked[l])
  \/ []<><<\E l \in Lock : locked[l] /\ ~locked'[l]>>_vars

\* Spin locks implement Mutex: the owner is the CPU one of whose contexts owns
\* the lock.
OwnerOf(l) ==
  IF \E c \in CPU, k \in Level : Owns(c, k, l)
    THEN CHOOSE c \in CPU : \E k \in Level : Owns(c, k, l)
    ELSE NoCPU

M == INSTANCE Mutex WITH Agent <- CPU, NoAgent <- NoCPU,
                         owner <- [l \in Lock |-> OwnerOf(l)]

\* The lock word and owner field of spinlock.c implement an atomic mutex.
ImplementsMutex == M!MutexSpec
=============================================================================
