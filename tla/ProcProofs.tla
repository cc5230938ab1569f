----------------------------- MODULE ProcProofs -----------------------------
(***************************************************************************)
(* Proofs, for any number of processes and processors, of the safety       *)
(* properties of Proc: stacks and CPUs, parents and children, slots and    *)
(* pids.                                                                   *)
(***************************************************************************)
EXTENDS Proc, TLAPS, WellFoundedInduction, NaturalsInduction

\* Where each CPU is, what that says of its process, and who holds ptable.lock.
CpuOK ==
  /\ \A c, d \in CPU : c # d /\ cur[c] = cur[d] => cur[c] = NoProc
  /\ \A c \in CPU :
       /\ cur[c] = NoProc => mode[c] = "run" /\ (idx[c] # NoProc => lock = c)
       /\ cur[c] # NoProc => proc[c] = cur[c]
       /\ cur[c] # NoProc /\ mode[c] # "sched" => state[cur[c]] = "RUNNING"
       /\ mode[c] = "yield" => frame[cur[c]] = "none"
       /\ cur[c] # NoProc /\ mode[c] = "run" /\ frame[cur[c]] # "none" =>
            lock = c /\ frame[cur[c]] \in {"forkret", "yield", "sleep"}
       /\ mode[c] = "sched" =>
            /\ lock = c
            /\ \/ state[cur[c]] = "RUNNABLE" /\ frame[cur[c]] = "yield"
               \/ state[cur[c]] = "SLEEPING" /\ frame[cur[c]] = "sleep"
               \/ state[cur[c]] = "ZOMBIE" /\ frame[cur[c]] = "exit"

\* What the state of a process says of where it is to resume.
FrameOK ==
  \A s \in Slot :
    /\ state[s] = "RUNNABLE" => frame[s] \in {"forkret", "yield", "sleep"}
    /\ state[s] = "SLEEPING" => frame[s] = "sleep" /\ chan[s] = s
    /\ state[s] = "ZOMBIE" => pc[s] = "exit"
    /\ frame[s] = "sleep" => pc[s] = "wait"

\* init lives for ever.
InitOK == Live(initproc) /\ pc[initproc] # "exit"

\* The labels between allocproc() and the end of fork().
Forking == {"kalloc", "copyuvm", "parent", "runnable"}

\* The slot that a fork() in progress holds, and how far it is filled in.
ForkOK ==
  /\ \A p \in Slot : np[p] # NoProc <=> pc[p] \in Forking
  /\ \A p \in Slot : np[p] # NoProc =>
       /\ Live(p)
       /\ state[np[p]] = "EMBRYO"
       /\ kstack[np[p]] <=> pc[p] # "kalloc"
       /\ pc[p] # "kalloc" => frame[np[p]] = "forkret"
       /\ parent[np[p]] = IF pc[p] = "runnable" THEN p ELSE NoProc

\* A free slot is nobody's child.
UnusedOK == \A s \in Slot : state[s] = "UNUSED" => parent[s] = NoProc

\* pids come from nextpid.
PidOK ==
  /\ nextpid > 0
  /\ \A s \in Slot : state[s] # "UNUSED" => pid[s] > 0 /\ pid[s] < nextpid

\* The inductive invariant.
IInv ==
  /\ TypeOK /\ CpuOK /\ FrameOK /\ InitOK
  /\ ForkOK /\ NoSlotLeaks
  /\ UnusedOK /\ NoOrphans /\ WaitersNotForgotten
  /\ PidOK /\ PidsUnique

-----------------------------------------------------------------------------
\* The context of the late leaves is large: more time for each of them.
USE SMTT(30), ZenonT(30)

\* Slots are positive numbers; the scheduler's context is none of them.
LEMMA SlotFacts == NoProc \notin Slot /\ initproc \in Slot /\ Slot \subseteq Nat
  BY ProcAssumption DEF NoProc, initproc, Slot

\* A loop over the table stops at some slot if there is one to stop at.
LEMMA FirstIn ==
  ASSUME NEW S \in SUBSET Slot, S # {}
  PROVE  First(S) \in S
  <1>1. S \subseteq Nat  BY SlotFacts
  <1>2. PICK x \in S : \A y \in S : ~(<<y, x>> \in OpToRel(<, Nat))
    BY <1>1, NatLessThanWellFounded, WFMin, Zenon
  <1>3. \A y \in S : x <= y
    <2> TAKE y \in S
    <2>1. ~(y < x)  BY <1>1, <1>2, Zenon DEF OpToRel
    <2> QED  BY <1>1, <2>1
  <1> QED  BY <1>3 DEF First

\* main() establishes the invariant.
LEMMA InitIInv == Init => IInv
  <1> SUFFICES ASSUME Init PROVE IInv  OBVIOUS
  <1> USE SlotFacts, ProcAssumption
  <1>1. TypeOK  BY DEF Init, TypeOK, State, Null
  <1>2. CpuOK /\ FrameOK /\ InitOK  BY DEF Init, CpuOK, FrameOK, InitOK, Live
  <1>3. ForkOK /\ NoSlotLeaks  BY Zenon DEF Init, ForkOK, NoSlotLeaks, Live, Forking
  <1>4. UnusedOK /\ NoOrphans /\ WaitersNotForgotten
    BY DEF Init, UnusedOK, NoOrphans, WaitersNotForgotten, Live
  <1>5. PidOK /\ PidsUnique  BY DEF Init, PidOK, PidsUnique
  <1> QED  BY <1>1, <1>2, <1>3, <1>4, <1>5 DEF IInv

\* The safety properties follow from it, ...
LEMMA IInvStacks == IInv => StacksSound
  <1> SUFFICES ASSUME IInv PROVE StacksSound  OBVIOUS
  <1>1. \A c \in CPU : cur[c] # NoProc => Live(cur[c]) /\ cur[c] \in Slot
    BY DEF IInv, TypeOK, CpuOK, Live, Null
  <1>2. OneCPU  BY <1>1 DEF IInv, CpuOK, NoSlotLeaks, OneCPU
  <1>3. ZombiesStayDead  BY SlotFacts DEF IInv, TypeOK, CpuOK, ZombiesStayDead
  <1> QED  BY <1>2, <1>3 DEF IInv, StacksSound

\* ... and it depends on nothing but the variables.
LEMMA StutterIInv == IInv /\ UNCHANGED vars => IInv'
  BY DEF vars, IInv, TypeOK, CpuOK, FrameOK, InitOK, ForkOK, NoSlotLeaks, UnusedOK,
     NoOrphans, WaitersNotForgotten, PidOK, PidsUnique, Live

\* A process that executes its own code is RUNNING, on one CPU only.
LEMMA RunsFacts ==
  ASSUME IInv, NEW c \in CPU, NEW p \in Slot, cur[c] = p, mode[c] # "sched"
  PROVE  /\ state[p] = "RUNNING" /\ proc[c] = p
         /\ \A d \in CPU : d # c => cur[d] # p
  BY SlotFacts DEF IInv, CpuOK

\* wait()'s loop keeps it, entered by the call or after sleep().
LEMMA WaitBodyStep ==
  ASSUME IInv, NEW c \in CPU, NEW p \in Slot,
         cur[c] = p, mode[c] = "run", lock \in {NoCPU, c},
         pc[p] \in {"call", "wait"}, WaitBody(c, p),
         UNCHANGED <<nextpid, proc, cur, idx, np>>
  PROVE  IInv'
  <1> DEFINE zombies == {s \in {t \in Slot : parent[t] = p} : state[s] = "ZOMBIE"}
  <1> USE SlotFacts, ProcAssumption
  <1>r. /\ state[p] = "RUNNING" /\ np[p] = NoProc
        /\ \A d \in CPU : mode[d] # "sched"
    BY RunsFacts DEF IInv, CpuOK, ForkOK, Forking
  <1>1. CASE zombies # {}
    <2>1. PICK z \in Slot :
            /\ state[z] = "ZOMBIE"
            /\ state' = [state EXCEPT ![z] = "UNUSED"] /\ pid' = [pid EXCEPT ![z] = 0]
            /\ parent' = [parent EXCEPT ![z] = NoProc]
            /\ killed' = [killed EXCEPT ![z] = FALSE] /\ kstack' = [kstack EXCEPT ![z] = FALSE]
            /\ parent[z] = p
      <3>1. First(zombies) \in zombies  BY <1>1, FirstIn
      <3> QED  BY <1>1, <3>1 DEF WaitBody
    <2>2. /\ frame' = [frame EXCEPT ![p] = "none"] /\ chan' = [chan EXCEPT ![p] = NoProc]
          /\ lock' = NoCPU /\ pc' = [pc EXCEPT ![p] = "user"] /\ UNCHANGED mode
      BY <1>1 DEF WaitBody, GoTo
    <2>z. z # p /\ z # initproc /\ np[z] = NoProc /\ \A d \in CPU : cur[d] # z
      BY <1>r, <2>1 DEF IInv, TypeOK, CpuOK, FrameOK, InitOK, ForkOK, Forking
    <2> USE <1>r, <2>1, <2>2, <2>z
    <2>3. TypeOK' /\ CpuOK' /\ FrameOK' /\ InitOK'
      BY DEF IInv, TypeOK, State, Null, CpuOK, FrameOK, InitOK, Live
    <2>4. ForkOK' /\ NoSlotLeaks' /\ PidOK' /\ PidsUnique'
      BY DEF IInv, TypeOK, FrameOK, ForkOK, NoSlotLeaks, Forking, Live, Null, PidOK, PidsUnique
    <2>5. UnusedOK' /\ NoOrphans' /\ WaitersNotForgotten'
      BY DEF IInv, TypeOK, FrameOK, InitOK, ForkOK, UnusedOK, NoOrphans, WaitersNotForgotten, Forking, Live, Null
    <2> QED  BY <2>3, <2>4, <2>5 DEF IInv
  <1>2. CASE /\ zombies = {} /\ frame' = [frame EXCEPT ![p] = "none"]
             /\ chan' = [chan EXCEPT ![p] = NoProc] /\ lock' = NoCPU
             /\ pc' = [pc EXCEPT ![p] = "user"]
             /\ UNCHANGED <<state, pid, parent, killed, kstack, mode>>
    <2> USE <1>r, <1>2
    <2>1. TypeOK' /\ CpuOK' /\ FrameOK' /\ InitOK'
      BY DEF IInv, TypeOK, State, Null, CpuOK, FrameOK, InitOK, Live
    <2>2. ForkOK' /\ NoSlotLeaks' /\ PidOK' /\ PidsUnique'
      BY DEF IInv, TypeOK, FrameOK, ForkOK, NoSlotLeaks, Forking, Live, Null, PidOK, PidsUnique
    <2>3. UnusedOK' /\ NoOrphans' /\ WaitersNotForgotten'
      BY DEF IInv, TypeOK, FrameOK, InitOK, ForkOK, UnusedOK, NoOrphans, WaitersNotForgotten, Forking, Live, Null
    <2> QED  BY <2>1, <2>2, <2>3, Zenon DEF IInv
  <1>3. CASE /\ zombies = {} /\ (\E t \in Slot : parent[t] = p) /\ ~killed[p]
             /\ chan' = [chan EXCEPT ![p] = p] /\ state' = [state EXCEPT ![p] = "SLEEPING"]
             /\ lock' = c /\ mode' = [mode EXCEPT ![c] = "sched"]
             /\ frame' = [frame EXCEPT ![p] = "sleep"] /\ pc' = [pc EXCEPT ![p] = "wait"]
             /\ UNCHANGED <<pid, parent, killed, kstack>>
    <2> USE <1>r, <1>3
    <2>1. TypeOK' /\ CpuOK' /\ FrameOK' /\ InitOK'
      BY DEF IInv, TypeOK, State, Null, CpuOK, FrameOK, InitOK, Live
    <2>2. ForkOK' /\ NoSlotLeaks' /\ PidOK' /\ PidsUnique'
      BY DEF IInv, TypeOK, FrameOK, ForkOK, NoSlotLeaks, Forking, Live, Null, PidOK, PidsUnique
    <2>3. UnusedOK' /\ NoOrphans' /\ WaitersNotForgotten'
      BY DEF IInv, TypeOK, FrameOK, InitOK, ForkOK, UnusedOK, NoOrphans, WaitersNotForgotten, Forking, Live, Null
    <2> QED  BY <2>1, <2>2, <2>3, Zenon DEF IInv
  <1> QED  BY <1>1, <1>2, <1>3, Zenon DEF WaitBody, GoTo, Sched

\* wait(), called or resumed, keeps it: in both cases the CPU has the lock.
LEMMA WaitStep ==
  ASSUME IInv, NEW c \in CPU, NEW p \in Slot, Wait(c, p) \/ WaitAgain(c, p)
  PROVE  IInv'
  <1>1. CASE Wait(c, p)
    BY <1>1, WaitBodyStep DEF Wait, At, Runs
  <1>2. CASE WaitAgain(c, p)
    <2>1. lock = c /\ pc[p] = "wait"
      BY <1>2, SlotFacts DEF IInv, CpuOK, FrameOK, WaitAgain
    <2> QED  BY <1>2, <2>1, WaitBodyStep DEF WaitAgain
  <1> QED  BY <1>1, <1>2

\* exit() under the lock keeps it: whoever must collect a ZOMBIE is awake, and
\* the children have a parent again.
LEMMA ExitStep ==
  ASSUME IInv, NEW c \in CPU, NEW p \in Slot, Exit(c, p)
  PROVE  IInv'
  <1> DEFINE orphan == \E t \in Slot : parent[t] = p /\ state[t] = "ZOMBIE"
             woken(s) == /\ state[s] = "SLEEPING"
                         /\ chan[s] = parent[p] \/ (orphan /\ chan[s] = initproc)
  <1> USE SlotFacts, ProcAssumption
  <1>r. /\ cur[c] = p /\ mode[c] = "run" /\ lock = NoCPU
        /\ state[p] = "RUNNING" /\ frame[p] = "none" /\ pc[p] = "exit" /\ np[p] = NoProc
        /\ p # initproc
    BY RunsFacts DEF IInv, InitOK, ForkOK, Forking, Exit, At, Runs
  <1>s. state' = [s \in Slot |-> IF s = p THEN "ZOMBIE" ELSE IF woken(s) THEN "RUNNABLE" ELSE state[s]]
    <2>1. CASE orphan
      <3>1. state' = [Wakeup1(Wakeup1(state, parent[p]), initproc) EXCEPT ![p] = "ZOMBIE"]
        BY <2>1 DEF Exit
      <3> QED  BY <2>1, <3>1, Zenon DEF Wakeup1
    <2>2. CASE ~orphan
      <3>1. state' = [Wakeup1(state, parent[p]) EXCEPT ![p] = "ZOMBIE"]
        BY <2>2 DEF Exit
      <3> QED  BY <2>2, <3>1, Zenon DEF Wakeup1
    <2> QED  BY <2>1, <2>2
  <1>u. /\ parent' = [s \in Slot |-> IF parent[s] = p THEN initproc ELSE parent[s]]
        /\ lock' = c /\ mode' = [mode EXCEPT ![c] = "sched"] /\ frame' = [frame EXCEPT ![p] = "exit"]
        /\ UNCHANGED <<pid, chan, killed, kstack, nextpid, proc, cur, idx, pc, np>>
    BY DEF Exit, Sched
  <1> USE <1>r, <1>s, <1>u
  <1>1. TypeOK' /\ CpuOK' /\ FrameOK' /\ InitOK'
    BY DEF IInv, TypeOK, State, Null, CpuOK, FrameOK, InitOK, Live
  <1>2. ForkOK' /\ NoSlotLeaks' /\ PidOK' /\ PidsUnique'
    BY DEF IInv, TypeOK, FrameOK, ForkOK, NoSlotLeaks, Forking, Live, Null, PidOK, PidsUnique
  <1>3. UnusedOK' /\ NoOrphans' /\ WaitersNotForgotten'
    BY DEF IInv, TypeOK, FrameOK, InitOK, ForkOK, UnusedOK, NoOrphans, WaitersNotForgotten, Forking, Live, Null
  <1> QED  BY <1>1, <1>2, <1>3, Zenon DEF IInv

\* kill() keeps it: the process it marks does not sleep on.
LEMMA KillStep ==
  ASSUME IInv, NEW c \in CPU, NEW p \in Slot, NEW k, Kill(c, p, k)
  PROVE  IInv'
  <1> DEFINE hit == {s \in Slot : pid[s] = k}
  <1> USE SlotFacts, ProcAssumption
  <1>r. /\ cur[c] = p /\ mode[c] = "run" /\ lock = NoCPU
        /\ state[p] = "RUNNING" /\ frame[p] = "none" /\ pc[p] = "call" /\ np[p] = NoProc
        /\ pc' = [pc EXCEPT ![p] = "user"]
        /\ UNCHANGED <<pid, parent, chan, kstack, nextpid, lock, proc, cur, mode, idx, frame, np>>
    BY RunsFacts DEF IInv, ForkOK, Forking, Kill, At, Runs, GoTo, cpuVars
  <1>1. CASE hit = {}
    <2>0. UNCHANGED <<killed, state>>  BY <1>1 DEF Kill
    <2> USE <1>r, <2>0
    <2>1. TypeOK' /\ CpuOK' /\ FrameOK' /\ InitOK'
      BY DEF IInv, TypeOK, State, Null, CpuOK, FrameOK, InitOK, Live
    <2>2. ForkOK' /\ NoSlotLeaks' /\ PidOK' /\ PidsUnique'
      BY DEF IInv, TypeOK, FrameOK, ForkOK, NoSlotLeaks, Forking, Live, Null, PidOK, PidsUnique
    <2>3. UnusedOK' /\ NoOrphans' /\ WaitersNotForgotten'
      BY DEF IInv, TypeOK, FrameOK, InitOK, ForkOK, UnusedOK, NoOrphans, WaitersNotForgotten, Forking, Live, Null
    <2> QED  BY <2>1, <2>2, <2>3, Zenon DEF IInv
  <1>2. CASE hit # {}
    <2>1. PICK t \in Slot :
            /\ killed' = [killed EXCEPT ![t] = TRUE]
            /\ state' = [state EXCEPT ![t] = IF @ = "SLEEPING" THEN "RUNNABLE" ELSE @]
      <3>1. First(hit) \in hit  BY <1>2, FirstIn, Zenon
      <3> QED  BY <1>2, <3>1 DEF Kill
    <2> USE <1>r, <2>1
    <2>2. TypeOK' /\ CpuOK' /\ FrameOK' /\ InitOK'
      BY DEF IInv, TypeOK, State, Null, CpuOK, FrameOK, InitOK, Live
    <2>3. ForkOK' /\ NoSlotLeaks' /\ PidOK' /\ PidsUnique'
      BY DEF IInv, TypeOK, FrameOK, ForkOK, NoSlotLeaks, Forking, Live, Null, PidOK, PidsUnique
    <2>4. UnusedOK' /\ NoOrphans' /\ WaitersNotForgotten'
      BY DEF IInv, TypeOK, FrameOK, InitOK, ForkOK, UnusedOK, NoOrphans, WaitersNotForgotten, Forking, Live, Null
    <2> QED  BY <2>2, <2>3, <2>4, Zenon DEF IInv
  <1> QED  BY <1>1, <1>2

\* allocproc() under the lock keeps it: the slot was free and the pid is new.
LEMMA ForkStep ==
  ASSUME IInv, NEW c \in CPU, NEW p \in Slot, Fork(c, p)
  PROVE  IInv'
  <1> DEFINE free == {s \in Slot : state[s] = "UNUSED"}
  <1> USE SlotFacts, ProcAssumption
  <1>r. /\ state[p] = "RUNNING" /\ frame[p] = "none" /\ pc[p] = "call" /\ np[p] = NoProc
        /\ UNCHANGED <<parent, chan, killed, kstack, lock, proc, cur, mode, idx, frame>>
    BY RunsFacts DEF IInv, ForkOK, Forking, Fork, At, Runs, cpuVars
  <1>1. CASE free = {}
    <2>0. pc' = [pc EXCEPT ![p] = "user"] /\ UNCHANGED <<state, pid, nextpid, np>>
      BY <1>1 DEF Fork, GoTo
    <2> USE <1>r, <2>0
    <2>1. TypeOK' /\ CpuOK' /\ FrameOK' /\ InitOK'
      BY DEF IInv, TypeOK, State, Null, CpuOK, FrameOK, InitOK, Live
    <2>2. ForkOK' /\ NoSlotLeaks' /\ PidOK' /\ PidsUnique'
      BY DEF IInv, TypeOK, FrameOK, ForkOK, NoSlotLeaks, Forking, Live, Null, PidOK, PidsUnique
    <2>3. UnusedOK' /\ NoOrphans' /\ WaitersNotForgotten'
      BY DEF IInv, TypeOK, FrameOK, InitOK, ForkOK, UnusedOK, NoOrphans, WaitersNotForgotten, Forking, Live, Null
    <2> QED  BY <2>1, <2>2, <2>3, Zenon DEF IInv
  <1>2. CASE free # {}
    <2>1. PICK f \in Slot :
            /\ state[f] = "UNUSED" /\ state' = [state EXCEPT ![f] = "EMBRYO"]
            /\ pid' = [pid EXCEPT ![f] = nextpid] /\ nextpid' = nextpid + 1
            /\ np' = [np EXCEPT ![p] = f] /\ pc' = [pc EXCEPT ![p] = "kalloc"]
      <3>1. First(free) \in free  BY <1>2, FirstIn
      <3> QED  BY <1>2, <3>1, Zenon DEF Fork, GoTo
    <2> USE <1>r, <2>1
    <2>2. TypeOK' /\ CpuOK' /\ FrameOK' /\ InitOK'
      BY DEF IInv, TypeOK, State, Null, CpuOK, FrameOK, InitOK, Live
    <2>3. ForkOK' /\ NoSlotLeaks' /\ PidOK' /\ PidsUnique'
      BY DEF IInv, TypeOK, FrameOK, ForkOK, NoSlotLeaks, UnusedOK, Forking, Live, Null, PidOK, PidsUnique
    <2>4. UnusedOK' /\ NoOrphans' /\ WaitersNotForgotten'
      BY DEF IInv, TypeOK, FrameOK, InitOK, ForkOK, UnusedOK, NoOrphans, WaitersNotForgotten, Forking, Live, Null
    <2> QED  BY <2>2, <2>3, <2>4 DEF IInv
  <1> QED  BY <1>1, <1>2

\* What a fork() in progress knows of its slot.
LEMMA ForkingFacts ==
  ASSUME IInv, NEW c \in CPU, NEW p \in Slot, Runs(c, p), pc[p] \in Forking
  PROVE  /\ state[p] = "RUNNING" /\ frame[p] = "none"
         /\ np[p] \in Slot \ {p} /\ state[np[p]] = "EMBRYO"
         /\ kstack[np[p]] <=> pc[p] # "kalloc"
         /\ pc[p] # "kalloc" => frame[np[p]] = "forkret"
         /\ parent[np[p]] = IF pc[p] = "runnable" THEN p ELSE NoProc
         /\ \A q \in Slot : q # p => np[q] # np[p]
         /\ np[np[p]] = NoProc
         /\ \A d \in CPU : cur[d] # np[p]
  <1> USE SlotFacts
  <1>1. state[p] = "RUNNING" /\ frame[p] = "none"  BY RunsFacts DEF Runs
  <1>2. np[p] \in Slot /\ state[np[p]] = "EMBRYO"  BY DEF IInv, TypeOK, ForkOK, Null
  <1>3. np[np[p]] = NoProc  BY <1>2, Zenon DEF IInv, ForkOK, Live
  <1>4. \A d \in CPU : cur[d] # np[p]  BY <1>2 DEF IInv, CpuOK
  <1> QED  BY <1>1, <1>2, <1>3, <1>4 DEF IInv, ForkOK, NoSlotLeaks

\* The allocation of the kernel stack keeps it, whether or not it succeeds.
LEMMA ForkKallocStep ==
  ASSUME IInv, NEW c \in CPU, NEW p \in Slot, ForkKalloc(c, p)
  PROVE  IInv'
  <1> USE SlotFacts, ProcAssumption
  <1>r. Runs(c, p) /\ pc[p] = "kalloc" /\ pc[p] \in Forking
    BY DEF ForkKalloc, At, Forking
  <1>f. /\ state[p] = "RUNNING" /\ frame[p] = "none"
        /\ np[p] \in Slot \ {p} /\ state[np[p]] = "EMBRYO" /\ ~kstack[np[p]]
        /\ parent[np[p]] = NoProc
        /\ \A q \in Slot : q # p => np[q] # np[p]
        /\ np[np[p]] = NoProc
        /\ \A d \in CPU : cur[d] # np[p]
    BY <1>r, ForkingFacts
  <1>u. UNCHANGED <<pid, parent, chan, killed, nextpid, lock, proc, cur, mode, idx>>
    BY DEF ForkKalloc, cpuVars
  <1>1. CASE /\ kstack' = [kstack EXCEPT ![np[p]] = TRUE]
             /\ frame' = [frame EXCEPT ![np[p]] = "forkret"]
             /\ pc' = [pc EXCEPT ![p] = "copyuvm"] /\ UNCHANGED <<state, np>>
    <2> USE <1>r, <1>f, <1>u, <1>1
    <2>1. TypeOK' /\ CpuOK' /\ FrameOK' /\ InitOK'
      BY DEF IInv, TypeOK, State, Null, CpuOK, FrameOK, InitOK, Live
    <2>2. ForkOK' /\ NoSlotLeaks' /\ PidOK' /\ PidsUnique'
      BY DEF IInv, TypeOK, FrameOK, ForkOK, NoSlotLeaks, Forking, Live, Null, PidOK, PidsUnique
    <2>3. UnusedOK' /\ NoOrphans' /\ WaitersNotForgotten'
      BY DEF IInv, TypeOK, FrameOK, InitOK, ForkOK, UnusedOK, NoOrphans, WaitersNotForgotten, Forking, Live, Null
    <2> QED  BY <2>1, <2>2, <2>3, Zenon DEF IInv
  <1>2. CASE /\ state' = [state EXCEPT ![np[p]] = "UNUSED"]
             /\ np' = [np EXCEPT ![p] = NoProc]
             /\ pc' = [pc EXCEPT ![p] = "user"] /\ UNCHANGED <<kstack, frame>>
    <2> USE <1>r, <1>f, <1>u, <1>2
    <2>1. TypeOK' /\ CpuOK' /\ FrameOK' /\ InitOK'
      BY DEF IInv, TypeOK, State, Null, CpuOK, FrameOK, InitOK, Live
    <2>2. ForkOK' /\ NoSlotLeaks' /\ PidOK' /\ PidsUnique'
      BY DEF IInv, TypeOK, FrameOK, ForkOK, NoSlotLeaks, Forking, Live, Null, PidOK, PidsUnique
    <2>3. UnusedOK' /\ NoOrphans' /\ WaitersNotForgotten'
      BY DEF IInv, TypeOK, FrameOK, InitOK, ForkOK, UnusedOK, NoOrphans, WaitersNotForgotten, Forking, Live, Null
    <2> QED  BY <2>1, <2>2, <2>3, Zenon DEF IInv
  <1> QED  BY <1>1, <1>2 DEF ForkKalloc, GoTo

\* The copy of the address space keeps it, whether or not it succeeds.
LEMMA ForkCopyStep ==
  ASSUME IInv, NEW c \in CPU, NEW p \in Slot, ForkCopy(c, p)
  PROVE  IInv'
  <1> USE SlotFacts, ProcAssumption
  <1>r. Runs(c, p) /\ pc[p] = "copyuvm" /\ pc[p] \in Forking
    BY DEF ForkCopy, At, Forking
  <1>f. /\ state[p] = "RUNNING" /\ frame[p] = "none"
        /\ np[p] \in Slot \ {p} /\ state[np[p]] = "EMBRYO" /\ kstack[np[p]]
        /\ frame[np[p]] = "forkret" /\ parent[np[p]] = NoProc
        /\ \A q \in Slot : q # p => np[q] # np[p]
        /\ np[np[p]] = NoProc
        /\ \A d \in CPU : cur[d] # np[p]
    BY <1>r, ForkingFacts
  <1>u. UNCHANGED <<pid, parent, chan, killed, nextpid, lock, proc, cur, mode, idx, frame>>
    BY DEF ForkCopy, cpuVars
  <1>1. CASE pc' = [pc EXCEPT ![p] = "parent"] /\ UNCHANGED <<state, kstack, np>>
    <2> USE <1>r, <1>f, <1>u, <1>1
    <2>1. TypeOK' /\ CpuOK' /\ FrameOK' /\ InitOK'
      BY DEF IInv, TypeOK, State, Null, CpuOK, FrameOK, InitOK, Live
    <2>2. ForkOK' /\ NoSlotLeaks' /\ PidOK' /\ PidsUnique'
      BY DEF IInv, TypeOK, FrameOK, ForkOK, NoSlotLeaks, Forking, Live, Null, PidOK, PidsUnique
    <2>3. UnusedOK' /\ NoOrphans' /\ WaitersNotForgotten'
      BY DEF IInv, TypeOK, FrameOK, InitOK, ForkOK, UnusedOK, NoOrphans, WaitersNotForgotten, Forking, Live, Null
    <2> QED  BY <2>1, <2>2, <2>3, Zenon DEF IInv
  <1>2. CASE /\ kstack' = [kstack EXCEPT ![np[p]] = FALSE]
             /\ state' = [state EXCEPT ![np[p]] = "UNUSED"]
             /\ np' = [np EXCEPT ![p] = NoProc] /\ pc' = [pc EXCEPT ![p] = "user"]
    <2> USE <1>r, <1>f, <1>u, <1>2
    <2>1. TypeOK' /\ CpuOK' /\ FrameOK' /\ InitOK'
      BY DEF IInv, TypeOK, State, Null, CpuOK, FrameOK, InitOK, Live
    <2>2. ForkOK' /\ NoSlotLeaks' /\ PidOK' /\ PidsUnique'
      BY DEF IInv, TypeOK, FrameOK, ForkOK, NoSlotLeaks, Forking, Live, Null, PidOK, PidsUnique
    <2>3. UnusedOK' /\ NoOrphans' /\ WaitersNotForgotten'
      BY DEF IInv, TypeOK, FrameOK, InitOK, ForkOK, UnusedOK, NoOrphans, WaitersNotForgotten, Forking, Live, Null
    <2> QED  BY <2>1, <2>2, <2>3, Zenon DEF IInv
  <1> QED  BY <1>1, <1>2 DEF ForkCopy, GoTo

\* np->parent = curproc, without the lock, keeps it.
LEMMA ForkParentStep ==
  ASSUME IInv, NEW c \in CPU, NEW p \in Slot, ForkParent(c, p)
  PROVE  IInv'
  <1> USE SlotFacts, ProcAssumption
  <1>r. Runs(c, p) /\ pc[p] = "parent" /\ pc[p] \in Forking
    BY DEF ForkParent, At, Forking
  <1>f. /\ state[p] = "RUNNING" /\ frame[p] = "none"
        /\ np[p] \in Slot \ {p} /\ state[np[p]] = "EMBRYO" /\ kstack[np[p]]
        /\ frame[np[p]] = "forkret" /\ parent[np[p]] = NoProc
        /\ \A q \in Slot : q # p => np[q] # np[p]
        /\ np[np[p]] = NoProc
        /\ \A d \in CPU : cur[d] # np[p]
    BY <1>r, ForkingFacts
  <1>u. /\ parent' = [parent EXCEPT ![np[p]] = p]
        /\ pc' = [pc EXCEPT ![p] = "runnable", ![np[p]] = "user"]
        /\ UNCHANGED <<state, pid, chan, killed, kstack, nextpid, lock, proc, cur, mode, idx, frame, np>>
    BY Zenon DEF ForkParent, cpuVars
  <1> USE <1>r, <1>f, <1>u
  <1>1. TypeOK' /\ CpuOK' /\ FrameOK' /\ InitOK'
    BY DEF IInv, TypeOK, State, Null, CpuOK, FrameOK, InitOK, Live
  <1>2. ForkOK' /\ NoSlotLeaks' /\ PidOK' /\ PidsUnique'
    BY DEF IInv, TypeOK, FrameOK, ForkOK, NoSlotLeaks, Forking, Live, Null, PidOK, PidsUnique
  <1>3. UnusedOK' /\ NoOrphans' /\ WaitersNotForgotten'
    BY DEF IInv, TypeOK, FrameOK, InitOK, ForkOK, UnusedOK, NoOrphans, WaitersNotForgotten, Forking, Live, Null
  <1> QED  BY <1>1, <1>2, <1>3, Zenon DEF IInv

\* np->state = RUNNABLE keeps it: the child has a parent that can wait for it.
LEMMA ForkRunnableStep ==
  ASSUME IInv, NEW c \in CPU, NEW p \in Slot, ForkRunnable(c, p)
  PROVE  IInv'
  <1> USE SlotFacts, ProcAssumption
  <1>r. Runs(c, p) /\ pc[p] = "runnable" /\ pc[p] \in Forking
    BY DEF ForkRunnable, At, Forking
  <1>f. /\ state[p] = "RUNNING" /\ frame[p] = "none"
        /\ np[p] \in Slot \ {p} /\ state[np[p]] = "EMBRYO" /\ kstack[np[p]]
        /\ frame[np[p]] = "forkret" /\ parent[np[p]] = p
        /\ \A q \in Slot : q # p => np[q] # np[p]
        /\ np[np[p]] = NoProc
        /\ \A d \in CPU : cur[d] # np[p]
    BY <1>r, ForkingFacts
  <1>u. /\ state' = [state EXCEPT ![np[p]] = "RUNNABLE"]
        /\ pc' = [pc EXCEPT ![p] = "user"] /\ np' = [np EXCEPT ![p] = NoProc]
        /\ UNCHANGED <<pid, parent, chan, killed, kstack, nextpid, lock, proc, cur, mode, idx, frame>>
    BY Zenon DEF ForkRunnable, GoTo, cpuVars
  <1> USE <1>r, <1>f, <1>u
  <1>1. TypeOK' /\ CpuOK' /\ FrameOK' /\ InitOK'
    BY DEF IInv, TypeOK, State, Null, CpuOK, FrameOK, InitOK, Live
  <1>2. ForkOK' /\ NoSlotLeaks' /\ PidOK' /\ PidsUnique'
    BY DEF IInv, TypeOK, FrameOK, ForkOK, NoSlotLeaks, Forking, Live, Null, PidOK, PidsUnique
  <1>3. UnusedOK' /\ NoOrphans' /\ WaitersNotForgotten'
    BY DEF IInv, TypeOK, FrameOK, InitOK, ForkOK, UnusedOK, NoOrphans, WaitersNotForgotten, Forking, Live, Null
  <1> QED  BY <1>1, <1>2, <1>3, Zenon DEF IInv

\* scheduler()'s scan, from whatever slot, keeps it: a RUNNABLE process is on no
\* other CPU, because a CPU inside sched() would hold the lock.
LEMMA ScanStep ==
  ASSUME IInv, NEW c \in CPU, NEW i, cur[c] = NoProc, lock \in {NoCPU, c}, Scan(c, i),
         UNCHANGED <<pid, parent, chan, killed, kstack, nextpid, mode, frame, pc, np>>
  PROVE  IInv'
  <1> DEFINE ready == {s \in Slot : s > i /\ state[s] = "RUNNABLE"}
  <1> USE SlotFacts, ProcAssumption
  <1>1. CASE ready = {}
    <2>0. /\ proc' = [proc EXCEPT ![c] = NoProc] /\ idx' = [idx EXCEPT ![c] = NoProc]
          /\ lock' = NoCPU /\ UNCHANGED <<state, cur>>
      BY <1>1, Zenon DEF Scan
    <2> USE <2>0
    <2>1. TypeOK' /\ CpuOK' /\ FrameOK' /\ InitOK'
      BY DEF IInv, TypeOK, State, Null, CpuOK, FrameOK, InitOK, Live
    <2>2. ForkOK' /\ NoSlotLeaks' /\ PidOK' /\ PidsUnique'
      BY DEF IInv, TypeOK, FrameOK, ForkOK, NoSlotLeaks, Forking, Live, Null, PidOK, PidsUnique
    <2>3. UnusedOK' /\ NoOrphans' /\ WaitersNotForgotten'
      BY DEF IInv, TypeOK, FrameOK, InitOK, ForkOK, UnusedOK, NoOrphans, WaitersNotForgotten, Forking, Live, Null
    <2> QED  BY <2>1, <2>2, <2>3, Zenon DEF IInv
  <1>2. CASE ready # {}
    <2>1. PICK p \in Slot :
            /\ state[p] = "RUNNABLE"
            /\ proc' = [proc EXCEPT ![c] = p] /\ state' = [state EXCEPT ![p] = "RUNNING"]
            /\ cur' = [cur EXCEPT ![c] = p] /\ idx' = [idx EXCEPT ![c] = p] /\ lock' = c
      <3>1. First(ready) \in ready  BY <1>2, FirstIn, Zenon
      <3> QED  BY <1>2, <3>1, Zenon DEF Scan
    <2> USE <2>1
    <2>2. TypeOK' /\ CpuOK' /\ FrameOK' /\ InitOK'
      BY DEF IInv, TypeOK, State, Null, CpuOK, FrameOK, InitOK, Live
    <2>3. ForkOK' /\ NoSlotLeaks' /\ PidOK' /\ PidsUnique'
      BY DEF IInv, TypeOK, FrameOK, ForkOK, NoSlotLeaks, Forking, Live, Null, PidOK, PidsUnique
    <2>4. UnusedOK' /\ NoOrphans' /\ WaitersNotForgotten'
      BY DEF IInv, TypeOK, FrameOK, InitOK, ForkOK, UnusedOK, NoOrphans, WaitersNotForgotten, Forking, Live, Null
    <2> QED  BY <2>2, <2>3, <2>4 DEF IInv
  <1> QED  BY <1>1, <1>2

\* scheduler() at the top of its loop, and after the swtch back to it.
LEMMA SchedulerStep ==
  ASSUME IInv, NEW c \in CPU, Scheduler(c) \/ SchedulerNext(c)
  PROVE  IInv'
  <1>1. cur[c] = NoProc /\ lock \in {NoCPU, c} /\ \E i \in Null : Scan(c, i)
    BY DEF IInv, TypeOK, CpuOK, Null, Scheduler, SchedulerNext
  <1>2. UNCHANGED <<pid, parent, chan, killed, kstack, nextpid, mode, frame, pc, np>>
    BY Zenon DEF Scheduler, SchedulerNext
  <1> QED  BY <1>1, <1>2, ScanStep

\* yield() up to its swtch() keeps it.
LEMMA YieldStep ==
  ASSUME IInv, NEW c \in CPU, Yield(c)
  PROVE  IInv'
  <1> USE SlotFacts, ProcAssumption
  <1>0. PICK p \in Slot : cur[c] = p /\ proc[c] = p /\ state[p] = "RUNNING" /\ frame[p] = "none"
    <2>1. mode[c] = "yield" /\ cur[c] # NoProc  BY Zenon DEF IInv, CpuOK, Yield
    <2>2. cur[c] \in Slot  BY <2>1, Zenon DEF IInv, TypeOK, Null
    <2> QED  BY <2>1, <2>2, RunsFacts, Zenon DEF IInv, CpuOK
  <1> USE <1>0
  <1>1. TypeOK' /\ CpuOK' /\ FrameOK' /\ InitOK'
    BY DEF IInv, TypeOK, State, Null, Yield, Sched, CpuOK, FrameOK, InitOK, Live
  <1>2. ForkOK' /\ NoSlotLeaks' /\ PidOK' /\ PidsUnique'
    BY DEF IInv, TypeOK, FrameOK, ForkOK, NoSlotLeaks, Forking, Live, Null, Yield, Sched, PidOK, PidsUnique
  <1>3. UnusedOK' /\ NoOrphans' /\ WaitersNotForgotten'
    BY DEF IInv, TypeOK, FrameOK, InitOK, ForkOK, UnusedOK, NoOrphans, WaitersNotForgotten, Forking, Live, Null, Yield, Sched
  <1> QED  BY <1>1, <1>2, <1>3, Zenon DEF IInv

\* The steps of trap() and the call of exit(), which only move the process, keep it.
LEMMA TrapStep ==
  ASSUME IInv, NEW c \in CPU, NEW p \in Slot,
         Trap(c, p) \/ Killed(c, p) \/ Fault(c, p) \/ CallExit(c, p)
  PROVE  IInv'
  <1> USE SlotFacts, ProcAssumption
  <1>0. /\ Runs(c, p) /\ pc[p] \in {"user", "call"}
        /\ \E l \in {"call", "exit"} : GoTo(p, l) /\ (l = "exit" => p # initproc)
        /\ \E k \in BOOLEAN : killed' = [killed EXCEPT ![p] = k]
        /\ UNCHANGED <<state, pid, parent, chan, kstack, nextpid, lock, proc, cur, mode, idx, frame, np>>
    <2>1. killed = [killed EXCEPT ![p] = killed[p]] /\ killed[p] \in BOOLEAN
      BY DEF IInv, TypeOK
    <2>2. CASE Trap(c, p)  BY <2>1, <2>2 DEF Trap, At, cpuVars
    <2>3. CASE Killed(c, p)  BY <2>1, <2>3, Zenon DEF Killed, At, cpuVars
    <2>4. CASE Fault(c, p)  BY <2>4, Zenon DEF Fault, At, cpuVars
    <2>5. CASE CallExit(c, p)  BY <2>1, <2>5 DEF CallExit, At, cpuVars
    <2> QED  BY <2>2, <2>3, <2>4, <2>5
  <1>r. state[p] = "RUNNING" /\ frame[p] = "none"
    BY <1>0, RunsFacts, Zenon DEF Runs
  <1> USE <1>0, <1>r
  <1>1. TypeOK' /\ CpuOK' /\ FrameOK' /\ InitOK'
    BY DEF IInv, TypeOK, State, Null, GoTo, CpuOK, FrameOK, InitOK, Live
  <1>2. ForkOK' /\ NoSlotLeaks' /\ PidOK' /\ PidsUnique'
    BY DEF IInv, TypeOK, FrameOK, ForkOK, NoSlotLeaks, Forking, Live, Null, GoTo, PidOK, PidsUnique
  <1>3. UnusedOK' /\ NoOrphans' /\ WaitersNotForgotten'
    BY DEF IInv, TypeOK, FrameOK, InitOK, ForkOK, UnusedOK, NoOrphans, WaitersNotForgotten, Forking, Live, Null, GoTo
  <1> QED  BY <1>1, <1>2, <1>3, Zenon DEF IInv

\* swtch() to the scheduler keeps it: ptable.lock goes along.
LEMMA SwtchStep ==
  ASSUME IInv, NEW c \in CPU, Swtch(c)
  PROVE  IInv'
  <1> USE SlotFacts, ProcAssumption
  <1>1. TypeOK' /\ CpuOK' /\ FrameOK' /\ InitOK'
    BY DEF IInv, TypeOK, State, Null, Swtch, CpuOK, FrameOK, InitOK, Live
  <1>2. ForkOK' /\ NoSlotLeaks' /\ PidOK' /\ PidsUnique'
    BY DEF IInv, TypeOK, FrameOK, ForkOK, NoSlotLeaks, Forking, Live, Null, Swtch, PidOK, PidsUnique
  <1>3. UnusedOK' /\ NoOrphans' /\ WaitersNotForgotten'
    BY DEF IInv, TypeOK, FrameOK, InitOK, ForkOK, UnusedOK, NoOrphans, WaitersNotForgotten, Forking, Live, Null, Swtch
  <1> QED  BY <1>1, <1>2, <1>3, Zenon DEF IInv

\* The clock interrupt keeps it.
LEMMA TimerStep ==
  ASSUME IInv, NEW c \in CPU, Timer(c)
  PROVE  IInv'
  <1> USE SlotFacts, ProcAssumption
  <1>1. TypeOK' /\ CpuOK' /\ FrameOK' /\ InitOK'
    BY DEF IInv, TypeOK, State, Null, Timer, Runs, CpuOK, FrameOK, InitOK, Live
  <1>2. ForkOK' /\ NoSlotLeaks' /\ PidOK' /\ PidsUnique'
    BY DEF IInv, TypeOK, FrameOK, ForkOK, NoSlotLeaks, Forking, Live, Null, Timer, Runs, PidOK, PidsUnique
  <1>3. UnusedOK' /\ NoOrphans' /\ WaitersNotForgotten'
    BY DEF IInv, TypeOK, FrameOK, InitOK, ForkOK, UnusedOK, NoOrphans, WaitersNotForgotten, Forking, Live, Null, Timer, Runs
  <1> QED  BY <1>1, <1>2, <1>3, Zenon DEF IInv

\* The return from yield()'s sched(), and forkret(), keep it.
LEMMA ReturnStep ==
  ASSUME IInv, NEW c \in CPU, NEW p \in Slot, Return(c, p)
  PROVE  IInv'
  <1> USE SlotFacts, ProcAssumption
  <1>0. state[p] = "RUNNING" /\ \A d \in CPU : d # c => cur[d] # p
    BY RunsFacts, Zenon DEF Return
  <1> USE <1>0
  <1>1. TypeOK' /\ CpuOK' /\ FrameOK' /\ InitOK'
    BY DEF IInv, TypeOK, State, Null, Return, cpuVars, CpuOK, FrameOK, InitOK, Live
  <1>2. ForkOK' /\ NoSlotLeaks' /\ PidOK' /\ PidsUnique'
    BY DEF IInv, TypeOK, FrameOK, ForkOK, NoSlotLeaks, Forking, Live, Null, Return, cpuVars, PidOK, PidsUnique
  <1>3. UnusedOK' /\ NoOrphans' /\ WaitersNotForgotten'
    BY DEF IInv, TypeOK, FrameOK, InitOK, ForkOK, UnusedOK, NoOrphans, WaitersNotForgotten, Forking, Live, Null, Return, cpuVars
  <1> QED  BY <1>1, <1>2, <1>3, Zenon DEF IInv

-----------------------------------------------------------------------------
\* Every step of every CPU keeps the invariant.
LEMMA NextIInv == IInv /\ [Next]_vars => IInv'
  <1> SUFFICES ASSUME IInv, [Next]_vars PROVE IInv'  OBVIOUS
  <1>1. CASE UNCHANGED vars  BY <1>1, StutterIInv
  <1>2. ASSUME NEW c \in CPU, CpuStep(c) PROVE IInv'
    <2>1. CASE Scheduler(c) \/ SchedulerNext(c)  BY <2>1, SchedulerStep
    <2>2. CASE Swtch(c)  BY <2>2, SwtchStep
    <2>3. CASE Yield(c)  BY <2>3, YieldStep
    <2>4. ASSUME NEW p \in Slot, Return(c, p)  PROVE IInv'  BY <2>4, ReturnStep
    <2>5. ASSUME NEW p \in Slot, Wait(c, p) \/ WaitAgain(c, p)  PROVE IInv'  BY <2>5, WaitStep
    <2>6. ASSUME NEW p \in Slot, Killed(c, p) \/ CallExit(c, p)  PROVE IInv'  BY <2>6, TrapStep
    <2>7. ASSUME NEW p \in Slot, Exit(c, p)  PROVE IInv'  BY <2>7, ExitStep
    <2>8. ASSUME NEW p \in Slot, Fork(c, p)  PROVE IInv'  BY <2>8, ForkStep
    <2>9. ASSUME NEW p \in Slot, NEW k \in KillPid, Kill(c, p, k)  PROVE IInv'  BY <2>9, KillStep
    <2>10. ASSUME NEW p \in Slot, ForkKalloc(c, p)  PROVE IInv'  BY <2>10, ForkKallocStep
    <2>11. ASSUME NEW p \in Slot, ForkCopy(c, p)  PROVE IInv'  BY <2>11, ForkCopyStep
    <2>12. ASSUME NEW p \in Slot, ForkParent(c, p)  PROVE IInv'  BY <2>12, ForkParentStep
    <2>13. ASSUME NEW p \in Slot, ForkRunnable(c, p)  PROVE IInv'  BY <2>13, ForkRunnableStep
    <2> QED
      BY <1>2, <2>1, <2>2, <2>3, <2>4, <2>5, <2>6, <2>7, <2>8, <2>9, <2>10, <2>11, <2>12, <2>13
      DEF CpuStep, Syscall
  <1>3. ASSUME NEW c \in CPU, Timer(c) PROVE IInv'  BY <1>3, TimerStep
  <1>4. ASSUME NEW c \in CPU, NEW p \in Slot, Trap(c, p) \/ Fault(c, p) PROVE IInv'
    BY <1>4, TrapStep
  <1> QED  BY <1>1, <1>2, <1>3, <1>4 DEF Next

\* The inductive invariant holds in every reachable state of proc.c.
THEOREM SpecIInv == Spec => []IInv
  <1> QED  BY InitIInv, NextIInv, PTL DEF Spec

\* sched(), scheduler() and the hand-over of ptable.lock: whatever the number of
\* CPUs and processes, no process and no kernel stack is on two CPUs, a CPU runs
\* the RUNNING process that c->proc names, and no process returns from exit().
THEOREM SpecStacksSound == Spec => []StacksSound
  <1> QED  BY IInvStacks, SpecIInv, PTL

\* exit(), wait() and fork(): every process has a living parent that can wait for
\* it, and nobody sleeps in wait() with a ZOMBIE to collect, without a child, or
\* killed.
THEOREM SpecFamiliesSound == Spec => []FamiliesSound
  <1>1. IInv => FamiliesSound  BY DEF IInv, FamiliesSound
  <1> QED  BY <1>1, SpecIInv, PTL

\* allocproc(), fork() that fails half-way, and wait(): every EMBRYO belongs to one
\* fork(), no kernel stack leaks, and the pids of the slots in use differ.
THEOREM SpecSlotsSound == Spec => []SlotsSound
  <1>1. IInv => SlotsSound  BY DEF IInv, SlotsSound
  <1> QED  BY <1>1, SpecIInv, PTL
=============================================================================
