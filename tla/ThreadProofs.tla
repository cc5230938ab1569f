---------------------------- MODULE ThreadProofs ----------------------------
(***************************************************************************)
(* Proofs about the code that sleeps, yields and takes turns, and about    *)
(* the arguments of a system call.  For any number of processes and sleep  *)
(* locks: the safety properties of SleepLock.  For any number of           *)
(* processes, any width of ticks and any argument: SleepExact of Clock.    *)
(* For any number of threads: ThreadsSound of UThread.  For any size of    *)
(* the address space: ArgsInside of Args.                                  *)
(***************************************************************************)
EXTENDS SleepLock, Clock, UThread, Args, WellFoundedInduction, NaturalsInduction, TLAPS

\* Who holds which spin lock, read off the program counters.
SpinOK ==
  /\ \A p \in Proc, l \in Lock :
       lk[l] = p <=> arg[p] = l /\ pc[p] \in {"while", "sleep0", "sleep1", "wakeup"}
  /\ \A p \in Proc : ptable = p <=> pc[p] \in {"sleep1", "sleep"}

\* What a process's position says of its fields.
ProcOK ==
  \A p \in Proc :
    /\ state[p] = "SLEEPING" => pc[p] = "tidy"
    /\ pc[p] = "tidy" => chan[p] = arg[p]
    /\ pc[p] # "run" => arg[p] \in Lock /\ arg[p] \notin held[p]

\* NoLostWakeup, strengthened to the moments before the process sleeps.
WakeupComing(l) == \E q \in Proc : pc[q] = "wakeup" /\ arg[q] = l

\* From the test of locked on, the lock is held or a wakeup is on its way.
SleepOK ==
  \A p \in Proc :
    /\ pc[p] \in {"sleep0", "sleep1"} => locked[arg[p]]
    /\ pc[p] = "sleep" \/ state[p] = "SLEEPING" =>
         locked[arg[p]] \/ WakeupComing(arg[p])

\* The inductive invariant.
IInv == TypeOK /\ SpinOK /\ ProcOK /\ SleepOK /\ HoldingSleepExact

-----------------------------------------------------------------------------
\* initsleeplock() establishes the invariant.
LEMMA InitIInv == Init => IInv
  BY SleepLockAssumption
  DEF Init, IInv, TypeOK, SpinOK, ProcOK, SleepOK, HoldingSleepExact

\* The loop test of acquiresleep() keeps it.
LEMMA WhileStep ==
  ASSUME IInv, NEW p \in Proc, While(p)
  PROVE  IInv'
  <1>1. TypeOK'
    <2>1. arg[p] \in Lock
      BY DEF IInv, ProcOK, While, At
    <2>2. CASE locked[arg[p]]
      BY <2>2 DEF IInv, TypeOK, While, GoTo
    <2>3. CASE ~locked[arg[p]]
      <3>1. /\ locked' = [locked EXCEPT ![arg[p]] = TRUE]
            /\ pid' = [pid EXCEPT ![arg[p]] = p]
            /\ lk' = [lk EXCEPT ![arg[p]] = NoProc]
            /\ held' = [held EXCEPT ![p] = @ \cup {arg[p]}]
            /\ arg' = [arg EXCEPT ![p] = NoLock]
            /\ pc' = [pc EXCEPT ![p] = "run"]
            /\ UNCHANGED <<ptable, state, chan, kills>>
        BY <2>3 DEF While, GoTo
      <3>2. held' \in [Proc -> SUBSET Lock]
        BY <2>1, <3>1 DEF IInv, TypeOK
      <3>3. QED
        BY <2>1, <3>1, <3>2 DEF IInv, TypeOK
    <2>4. QED
      BY <2>2, <2>3
  <1>2. SpinOK'
    BY SleepLockAssumption DEF IInv, TypeOK, SpinOK, ProcOK, While, At, GoTo
  <1>3. ProcOK'
    BY SleepLockAssumption DEF IInv, TypeOK, ProcOK, HoldingSleepExact, While, At, GoTo
  <1>4. SleepOK'
    BY SleepLockAssumption DEF IInv, TypeOK, SpinOK, ProcOK, SleepOK, WakeupComing, HoldingSleepExact, While, At, GoTo
  <1>5. HoldingSleepExact'
    BY SleepLockAssumption DEF IInv, TypeOK, ProcOK, HoldingSleepExact, While, At, GoTo
  <1>6. QED
    BY <1>1, <1>2, <1>3, <1>4, <1>5 DEF IInv

\* sleep()'s acquire of ptable.lock keeps it.
LEMMA SleepAcquireStep ==
  ASSUME IInv, NEW p \in Proc, SleepAcquire(p)
  PROVE  IInv'
  <1>1. TypeOK'
    BY SleepLockAssumption DEF IInv, TypeOK, ProcOK, SleepAcquire, At, GoTo
  <1>2. SpinOK'
    BY SleepLockAssumption DEF IInv, TypeOK, SpinOK, ProcOK, SleepAcquire, At, GoTo
  <1>3. ProcOK'
    BY SleepLockAssumption DEF IInv, TypeOK, ProcOK, HoldingSleepExact, SleepAcquire, At, GoTo
  <1>4. SleepOK'
    BY SleepLockAssumption DEF IInv, TypeOK, SpinOK, ProcOK, SleepOK, WakeupComing, HoldingSleepExact, SleepAcquire, At, GoTo
  <1>5. HoldingSleepExact'
    BY SleepLockAssumption DEF IInv, TypeOK, ProcOK, HoldingSleepExact, SleepAcquire, At, GoTo
  <1>6. QED
    BY <1>1, <1>2, <1>3, <1>4, <1>5 DEF IInv

\* sleep()'s release of the caller's lock keeps it.
LEMMA SleepReleaseStep ==
  ASSUME IInv, NEW p \in Proc, SleepRelease(p)
  PROVE  IInv'
  <1>1. TypeOK'
    BY SleepLockAssumption DEF IInv, TypeOK, ProcOK, SleepRelease, At, GoTo
  <1>2. SpinOK'
    BY SleepLockAssumption DEF IInv, TypeOK, SpinOK, ProcOK, SleepRelease, At, GoTo
  <1>3. ProcOK'
    BY SleepLockAssumption DEF IInv, TypeOK, ProcOK, HoldingSleepExact, SleepRelease, At, GoTo
  <1>4. SleepOK'
    BY SleepLockAssumption DEF IInv, TypeOK, SpinOK, ProcOK, SleepOK, WakeupComing, HoldingSleepExact, SleepRelease, At, GoTo
  <1>5. HoldingSleepExact'
    BY SleepLockAssumption DEF IInv, TypeOK, ProcOK, HoldingSleepExact, SleepRelease, At, GoTo
  <1>6. QED
    BY <1>1, <1>2, <1>3, <1>4, <1>5 DEF IInv

\* The store of SLEEPING and the switch keep it.
LEMMA SleepSchedStep ==
  ASSUME IInv, NEW p \in Proc, SleepSched(p)
  PROVE  IInv'
  <1>1. TypeOK'
    BY SleepLockAssumption DEF IInv, TypeOK, ProcOK, SleepSched, At, GoTo
  <1>2. SpinOK'
    BY SleepLockAssumption DEF IInv, TypeOK, SpinOK, ProcOK, SleepSched, At, GoTo
  <1>3. ProcOK'
    BY SleepLockAssumption DEF IInv, TypeOK, ProcOK, HoldingSleepExact, SleepSched, At, GoTo
  <1>4. SleepOK'
    BY SleepLockAssumption DEF IInv, TypeOK, SpinOK, ProcOK, SleepOK, WakeupComing, HoldingSleepExact, SleepSched, At, GoTo
  <1>5. HoldingSleepExact'
    BY SleepLockAssumption DEF IInv, TypeOK, ProcOK, HoldingSleepExact, SleepSched, At, GoTo
  <1>6. QED
    BY <1>1, <1>2, <1>3, <1>4, <1>5 DEF IInv

\* The return from the switch keeps it.
LEMMA SleepTidyStep ==
  ASSUME IInv, NEW p \in Proc, SleepTidy(p)
  PROVE  IInv'
  <1>1. TypeOK'
    BY SleepLockAssumption DEF IInv, TypeOK, ProcOK, SleepTidy, At, GoTo
  <1>2. SpinOK'
    BY SleepLockAssumption DEF IInv, TypeOK, SpinOK, ProcOK, SleepTidy, At, GoTo
  <1>3. ProcOK'
    BY SleepLockAssumption DEF IInv, TypeOK, ProcOK, HoldingSleepExact, SleepTidy, At, GoTo
  <1>4. SleepOK'
    BY SleepLockAssumption DEF IInv, TypeOK, SpinOK, ProcOK, SleepOK, WakeupComing, HoldingSleepExact, SleepTidy, At, GoTo
  <1>5. HoldingSleepExact'
    BY SleepLockAssumption DEF IInv, TypeOK, ProcOK, HoldingSleepExact, SleepTidy, At, GoTo
  <1>6. QED
    BY <1>1, <1>2, <1>3, <1>4, <1>5 DEF IInv

\* sleep()'s acquire of the caller's lock keeps it.
LEMMA SleepReacquireStep ==
  ASSUME IInv, NEW p \in Proc, SleepReacquire(p)
  PROVE  IInv'
  <1>1. TypeOK'
    BY SleepLockAssumption DEF IInv, TypeOK, ProcOK, SleepReacquire, At, GoTo
  <1>2. SpinOK'
    BY SleepLockAssumption DEF IInv, TypeOK, SpinOK, ProcOK, SleepReacquire, At, GoTo
  <1>3. ProcOK'
    BY SleepLockAssumption DEF IInv, TypeOK, ProcOK, HoldingSleepExact, SleepReacquire, At, GoTo
  <1>4. SleepOK'
    BY SleepLockAssumption DEF IInv, TypeOK, SpinOK, ProcOK, SleepOK, WakeupComing, HoldingSleepExact, SleepReacquire, At, GoTo
  <1>5. HoldingSleepExact'
    BY SleepLockAssumption DEF IInv, TypeOK, ProcOK, HoldingSleepExact, SleepReacquire, At, GoTo
  <1>6. QED
    BY <1>1, <1>2, <1>3, <1>4, <1>5 DEF IInv

\* wakeup() in releasesleep() keeps it.
LEMMA WakeupStep ==
  ASSUME IInv, NEW p \in Proc, Wakeup(p)
  PROVE  IInv'
  <1>1. TypeOK'
    BY SleepLockAssumption DEF IInv, TypeOK, ProcOK, Wakeup, At, GoTo, Wakeup1
  <1>2. SpinOK'
    BY SleepLockAssumption DEF IInv, TypeOK, SpinOK, ProcOK, Wakeup, At, GoTo, Wakeup1
  <1>3. ProcOK'
    BY SleepLockAssumption DEF IInv, TypeOK, ProcOK, HoldingSleepExact, Wakeup, At, GoTo, Wakeup1
  <1>4. SleepOK'
    BY SleepLockAssumption DEF IInv, TypeOK, SpinOK, ProcOK, SleepOK, WakeupComing, HoldingSleepExact, Wakeup, At, GoTo, Wakeup1
  <1>5. HoldingSleepExact'
    BY SleepLockAssumption DEF IInv, TypeOK, ProcOK, HoldingSleepExact, Wakeup, At, GoTo, Wakeup1
  <1>6. QED
    BY <1>1, <1>2, <1>3, <1>4, <1>5 DEF IInv

\* A kill keeps it.
LEMMA KillStep ==
  ASSUME IInv, NEW p \in Proc, Kill(p)
  PROVE  IInv'
  <1>1. TypeOK'
    BY SleepLockAssumption DEF IInv, TypeOK, ProcOK, Kill, At, GoTo
  <1>2. SpinOK'
    BY SleepLockAssumption DEF IInv, TypeOK, SpinOK, ProcOK, Kill, At, GoTo
  <1>3. ProcOK'
    BY SleepLockAssumption DEF IInv, TypeOK, ProcOK, HoldingSleepExact, Kill, At, GoTo
  <1>4. SleepOK'
    BY SleepLockAssumption DEF IInv, TypeOK, SpinOK, ProcOK, SleepOK, WakeupComing, HoldingSleepExact, Kill, At, GoTo
  <1>5. HoldingSleepExact'
    BY SleepLockAssumption DEF IInv, TypeOK, ProcOK, HoldingSleepExact, Kill, At, GoTo
  <1>6. QED
    BY <1>1, <1>2, <1>3, <1>4, <1>5 DEF IInv

\* A call of acquiresleep() keeps it.
LEMMA AcquireSleepStep ==
  ASSUME IInv, NEW p \in Proc, NEW l \in Lock, AcquireSleep(p, l)
  PROVE  IInv'
  <1>1. TypeOK'
    BY SleepLockAssumption DEF IInv, TypeOK, ProcOK, AcquireSleep, At, GoTo
  <1>2. SpinOK'
    BY SleepLockAssumption DEF IInv, TypeOK, SpinOK, ProcOK, AcquireSleep, At, GoTo
  <1>3. ProcOK'
    <2>1. l \notin held[p]
      BY SleepLockAssumption, ZenonT(30) DEF AcquireSleep
    <2>2. QED
      BY <2>1 DEF IInv, TypeOK, ProcOK, AcquireSleep, At, GoTo
  <1>4. SleepOK'
    BY SleepLockAssumption DEF IInv, TypeOK, SpinOK, ProcOK, SleepOK, WakeupComing, HoldingSleepExact, AcquireSleep, At, GoTo
  <1>5. HoldingSleepExact'
    BY SleepLockAssumption DEF IInv, TypeOK, ProcOK, HoldingSleepExact, AcquireSleep, At, GoTo
  <1>6. QED
    BY <1>1, <1>2, <1>3, <1>4, <1>5 DEF IInv

\* The first half of releasesleep() keeps it.
LEMMA ReleaseSleepStep ==
  ASSUME IInv, NEW p \in Proc, NEW l \in Lock, ReleaseSleep(p, l)
  PROVE  IInv'
  <1>1. TypeOK'
    BY SleepLockAssumption DEF IInv, TypeOK, ProcOK, ReleaseSleep, At, GoTo
  <1>2. SpinOK'
    BY SleepLockAssumption DEF IInv, TypeOK, SpinOK, ProcOK, ReleaseSleep, At, GoTo
  <1>3. ProcOK'
    BY SleepLockAssumption DEF IInv, TypeOK, ProcOK, HoldingSleepExact, ReleaseSleep, At, GoTo
  <1>4. SleepOK'
    BY SleepLockAssumption DEF IInv, TypeOK, SpinOK, ProcOK, SleepOK, WakeupComing, HoldingSleepExact, ReleaseSleep, At, GoTo
  <1>5. HoldingSleepExact'
    BY SleepLockAssumption DEF IInv, TypeOK, ProcOK, HoldingSleepExact, ReleaseSleep, At, GoTo
  <1>6. QED
    BY <1>1, <1>2, <1>3, <1>4, <1>5 DEF IInv

\* Every step keeps the invariant.
LEMMA NextIInv == IInv /\ [Next]_vars => IInv'
  <1>1. SUFFICES ASSUME IInv, [Next]_vars PROVE IInv'
    OBVIOUS
  <1>2. CASE UNCHANGED vars
    BY <1>1, <1>2 DEF vars, IInv, TypeOK, SpinOK, ProcOK, SleepOK, WakeupComing,
                      HoldingSleepExact
  <1>3. ASSUME NEW p \in Proc, Step(p) PROVE IInv'
    BY <1>1, <1>3, WhileStep, SleepAcquireStep, SleepReleaseStep, SleepSchedStep,
       SleepTidyStep, SleepReacquireStep, WakeupStep DEF Step
  <1>4. ASSUME NEW p \in Proc, NEW l \in Lock, AcquireSleep(p, l) \/ ReleaseSleep(p, l)
        PROVE  IInv'
    BY <1>1, <1>4, AcquireSleepStep, ReleaseSleepStep
  <1>5. ASSUME NEW p \in Proc, Kill(p) PROVE IInv'
    BY <1>1, <1>5, KillStep
  <1>6. QED
    BY <1>1, <1>2, <1>3, <1>4, <1>5 DEF Next

\* The invariant holds in every behaviour.
LEMMA SpecIInv == Spec => []IInv
  BY InitIInv, NextIInv, PTL DEF Spec

\* Type correctness of the state of sleeplock.c.
THEOREM SleepLockTypeOK == Spec => []TypeOK
  <1>1. IInv => TypeOK
    BY DEF IInv
  <1>2. QED
    BY <1>1, SpecIInv, PTL

\* holdingsleep() is exact for any number of processes and locks.
THEOREM SleepLockHoldingExact == Spec => []HoldingSleepExact
  <1>1. IInv => HoldingSleepExact
    BY DEF IInv
  <1>2. QED
    BY <1>1, SpecIInv, PTL

\* acquiresleep()/releasesleep() give mutual exclusion.
THEOREM SleepLockMutualExclusion == Spec => []MutualExclusion
  <1>1. IInv => MutualExclusion
    <2>1. SUFFICES ASSUME IInv, NEW p \in Proc, NEW q \in Proc, p # q,
                          NEW l \in held[p] \cap held[q]
                   PROVE  FALSE
      BY DEF MutualExclusion
    <2>2. l \in Lock
      BY <2>1 DEF IInv, TypeOK
    <2>3. pid[l] = p /\ pid[l] = q
      BY <2>1, <2>2 DEF IInv, HoldingSleepExact
    <2>4. QED
      BY <2>1, <2>3
  <1>2. QED
    BY <1>1, SpecIInv, PTL

\* No wakeup is lost between the test of lk->locked and the sleep.
THEOREM SleepLockNoLostWakeup == Spec => []NoLostWakeup
  <1>1. IInv => NoLostWakeup
    BY DEF IInv, SleepOK, WakeupComing, NoLostWakeup
  <1>2. QED
    BY <1>1, SpecIInv, PTL

-----------------------------------------------------------------------------
\* Sleep locks implement the atomic mutex: leaving the while loop is Take,
\* clearing locked in releasesleep() is Give, every other step is invisible.
THEOREM SleepLockImplementsMutex == Spec => ImplementsMutex
  <1> DEFINE own == [l \in Lock |-> IF locked[l] THEN pid[l] ELSE NoProc]
  <1>1. Init => M!MutexInit
    BY DEF Init, M!MutexInit
  <1>2. IInv /\ [Next]_vars => [M!MutexNext]_own
    <2>1. SUFFICES ASSUME IInv, [Next]_vars PROVE M!MutexNext \/ own' = own
      OBVIOUS
    <2>2. CASE locked' = locked /\ pid' = pid
      BY <2>2
    <2>3. ASSUME NEW p \in Proc, While(p), ~(locked' = locked /\ pid' = pid)
          PROVE  M!MutexNext
      <3>1. PICK l \in Lock : l = arg[p]
        BY <2>1, <2>3 DEF IInv, ProcOK, While, At
      <3>2. /\ ~locked[l]
            /\ locked' = [locked EXCEPT ![l] = TRUE]
            /\ pid' = [pid EXCEPT ![l] = p]
        BY <2>3, <3>1 DEF While
      <3>3. M!Take(p, l)
        BY <2>1, <3>1, <3>2, ZenonT(30) DEF IInv, TypeOK, M!Take
      <3>4. QED
        BY <3>3 DEF M!MutexNext
    <2>4. ASSUME NEW p \in Proc, NEW l \in Lock, ReleaseSleep(p, l)
          PROVE  M!MutexNext
      <3>1. locked[l] /\ pid[l] = p
        BY <2>1, <2>4 DEF IInv, HoldingSleepExact, ReleaseSleep
      <3>2. M!Give(p, l)
        BY <2>1, <2>4, <3>1, ZenonT(30) DEF IInv, TypeOK, ReleaseSleep, M!Give
      <3>3. QED
        BY <3>2 DEF M!MutexNext
    <2>5. QED
      BY <2>1, <2>2, <2>3, <2>4 DEF Next, Step, vars, SleepAcquire, SleepRelease, SleepSched,
         SleepTidy, SleepReacquire, Wakeup, Kill, AcquireSleep
  <1>3. QED
    BY <1>1, <1>2, SpecIInv, PTL DEF Spec, ImplementsMutex, M!MutexSpec

-----------------------------------------------------------------------------
\* The calls of sleep().
NapRec == [st : {"up", "asleep", "woken", "returned"}, n : Naps \cup {0}, ticks0 : 0..WORD-1,
           passed : Nat, late : 0..LAG]

\* A nap k when the counter is t, also while it lasts: the counter, which wraps
\* around, tells how many ticks have passed; a process asleep is not overdue, and
\* one that was woken is overdue by the ticks since then at most.
NapOK(k, t) ==
  /\ k.st # "up" => k.n \in Naps
  /\ k.st \in {"asleep", "woken"} => (t - k.ticks0) % WORD = k.passed
  /\ k.st = "asleep" => k.passed < k.n % WORD /\ k.late = 0
  /\ k.st = "woken" => k.passed <= (k.n % WORD) + k.late
  /\ k.st = "returned" => k.passed >= k.n % WORD /\ k.passed <= (k.n % WORD) + LAG

\* The inductive invariant of the clock.
ClockOK ==
  /\ ticks \in 0..WORD-1 /\ nap \in [Sleeper -> NapRec]
  /\ \A p \in Sleeper : NapOK(nap[p], ticks)

-----------------------------------------------------------------------------
\* There is only one remainder.
LEMMA ModUnique ==
  ASSUME NEW b \in Nat \ {0}, NEW q \in Int, NEW r \in 0..b-1, NEW a \in Int, a = b * q + r
  PROVE  a % b = r
  OBVIOUS

\* The quotient and the remainder.
LEMMA DivMod ==
  ASSUME NEW a \in Int, NEW b \in Nat \ {0}
  PROVE  \E q \in Int : \E r \in 0..b-1 : a % b = r /\ a = b * q + r
  <1> DEFINE q == a \div b
             r == a % b
  <1>1. a % b = a - b * (a \div b)  OBVIOUS
  <1>2. a \div b \in Int  OBVIOUS
  <1>3. a % b \in 0..b-1  OBVIOUS
  <1>4. q \in Int /\ r \in 0..b-1 /\ r = a - b * q  BY <1>1, <1>2, <1>3
  <1> HIDE DEF q, r
  <1>5. a = b * q + r  BY <1>4
  <1> QED  BY <1>4, <1>5, Zenon DEF q, r

\* A tick later the difference to an earlier value of the counter is one larger,
\* although the counter may have wrapped around.
LEMMA TickLater ==
  ASSUME NEW w \in Nat \ {0}, NEW a \in Int, NEW c \in Int, NEW k \in Nat,
         (a - c) % w = k, k + 1 < w
  PROVE  (((a + 1) % w) - c) % w = k + 1
  <1>0. a - c \in Int /\ a + 1 \in Int  OBVIOUS
  <1>1. PICK x \in Int, s \in 0..w-1 : (a - c) % w = s /\ a - c = w * x + s
    BY <1>0, DivMod, Zenon
  <1>2. PICK y \in Int, r \in 0..w-1 : (a + 1) % w = r /\ a + 1 = w * y + r
    BY <1>0, DivMod, Zenon
  <1>3. r - c = w * (x - y) + (k + 1)
    <2>1. w * (x - y) = w * x - w * y  OBVIOUS
    <2> QED  BY <1>1, <1>2, <2>1
  <1>4. (r - c) % w = k + 1
    <2>1. x - y \in Int /\ k + 1 \in 0..w-1 /\ r - c \in Int  OBVIOUS
    <2> QED  BY <1>3, <2>1, ModUnique
  <1> QED  BY <1>2, <1>4

\* The argument of sleep() as a uint leaves room for the lag.
LEMMA NapRange ==
  ASSUME NEW n \in Naps
  PROVE  n % WORD \in Nat /\ (n % WORD) + LAG < WORD
  BY ClockAssumption

\* What is assumed of the counter's width and of the lag.
LEMMA ClockNats == LAG \in Nat /\ WORD \in Nat /\ WORD # 0  BY ClockAssumption

\* The fields of a nap.
LEMMA NapFields ==
  ASSUME NEW st \in {"up", "asleep", "woken", "returned"}, NEW n \in Naps \cup {0},
         NEW t \in 0..WORD-1, NEW d \in Nat, NEW l \in 0..LAG, NEW m, m = Nap(st, n, t, d, l)
  PROVE  /\ m \in NapRec
         /\ m.st = st /\ m.n = n /\ m.ticks0 = t /\ m.passed = d /\ m.late = l
  BY DEF NapRec, Nap

\* What a nap is.
LEMMA NapType ==
  ASSUME NEW k \in NapRec
  PROVE  /\ k.st \in {"up", "asleep", "woken", "returned"} /\ k.n \in Naps \cup {0}
         /\ k.ticks0 \in 0..WORD-1 /\ k.passed \in Nat /\ k.late \in 0..LAG
  BY DEF NapRec

\* A tick is counted, and within the lag.
LEMMA TickOK ==
  ASSUME NEW k \in NapRec, NEW t \in 0..WORD-1, NapOK(k, t), k.late < LAG
  PROVE  Tick(k) \in NapRec /\ NapOK(Tick(k), (t + 1) % WORD)
  <1>1. CASE k.st \notin {"asleep", "woken"}
    BY <1>1 DEF Tick, NapOK
  <1>2. CASE k.st \in {"asleep", "woken"}
    <2>1. PICK l : l = IF k.st = "woken" THEN k.late + 1 ELSE 0  OBVIOUS
    <2>2. PICK c : c = k.n % WORD  OBVIOUS
    <2>3. PICK m : m = Tick(k)  OBVIOUS
    <2>4. /\ k.passed \in Nat /\ k.late \in 0..LAG /\ k.ticks0 \in 0..WORD-1 /\ k.n \in Naps
      BY <1>2, NapType DEF NapOK
    <2>5. c \in Nat /\ c + LAG < WORD  BY <2>2, <2>4, NapRange, Zenon
    <2>6. l \in 0..LAG /\ k.passed + 1 \in Nat  BY <2>1, <2>4, ClockNats
    <2>7. k.passed + 1 <= c + l
      BY <1>2, <2>1, <2>2, <2>4, <2>5 DEF NapOK
    <2>8. m = Nap("woken", k.n, k.ticks0, k.passed + 1, l)
      BY <1>2, <2>1, <2>3, Zenon DEF Tick, Becomes
    <2>9. /\ m \in NapRec /\ m.st = "woken" /\ m.n = k.n /\ m.ticks0 = k.ticks0
          /\ m.passed = k.passed + 1 /\ m.late = l
      BY <2>4, <2>6, <2>8, NapFields
    <2>10. (((t + 1) % WORD) - k.ticks0) % WORD = k.passed + 1
      <3>1. k.passed + 1 < WORD  BY <2>4, <2>5, <2>6, <2>7, ClockNats
      <3>2. (t - k.ticks0) % WORD = k.passed  BY <1>2, Zenon DEF NapOK
      <3>3. t \in Int /\ k.ticks0 \in Int /\ WORD \in Nat \ {0}  BY <2>4, ClockNats
      <3> QED  BY <2>4, <3>1, <3>2, <3>3, TickLater, Zenon
    <2>11. NapOK(m, (t + 1) % WORD)
      <3>1. m.n \in Naps /\ ((((t + 1) % WORD) - m.ticks0) % WORD) = m.passed
        BY <2>4, <2>9, <2>10, Zenon
      <3>2. m.passed <= (m.n % WORD) + m.late  BY <2>2, <2>7, <2>9, Zenon
      <3> QED  BY <2>9, <3>1, <3>2, Zenon DEF NapOK
    <2> QED  BY <2>3, <2>9, <2>11, Zenon
  <1> QED  BY <1>1, <1>2

\* The timer interrupt: one more tick for everybody who sleeps.
LEMMA TimerStep ==
  ASSUME ClockOK, Timer
  PROVE  ClockOK'
  <1>1. /\ ticks' = (ticks + 1) % WORD /\ \A p \in Sleeper : nap[p].late < LAG
        /\ nap' = [p \in Sleeper |-> Tick(nap[p])]
    BY Zenon DEF Timer, Add
  <1>2. ticks' \in 0..WORD-1  BY <1>1, ClockAssumption DEF ClockOK
  <1>3. \A p \in Sleeper : Tick(nap[p]) \in NapRec /\ NapOK(Tick(nap[p]), ticks')
    BY <1>1, TickOK DEF ClockOK
  <1> QED  BY <1>1, <1>2, <1>3, Zenon DEF ClockOK

\* A step of one process that leaves the counter alone.
LEMMA NapStep ==
  ASSUME ClockOK, NEW p \in Sleeper, NEW m \in NapRec, NapOK(m, ticks),
         ticks' = ticks, nap' = [nap EXCEPT ![p] = m]
  PROVE  ClockOK'
  BY DEF ClockOK

\* A process that is not in sleep() has no nap to keep.
LEMMA UpOK == Up \in NapRec /\ NapOK(Up, ticks)
  <1>1. PICK m : m = Nap("up", 0, 0, 0, 0)  OBVIOUS
  <1>2. 0 \in 0..WORD-1 /\ 0 \in 0..LAG  BY ClockNats
  <1>3. m \in NapRec /\ m.st = "up"  BY <1>1, <1>2, NapFields
  <1> QED  BY <1>1, <1>3 DEF NapOK, Up

\* sys_sleep() reads the counter.
LEMMA SleepStep ==
  ASSUME ClockOK, NEW p \in Sleeper, NEW n \in Naps, sys_sleep(p, n)
  PROVE  ClockOK'
  <1>1. PICK k : k = Nap("asleep", n, ticks, 0, 0)  OBVIOUS
  <1>2. PICK m : m = IF Overdue(k) THEN Becomes(k, "returned", 0, 0) ELSE k  OBVIOUS
  <1>3. ticks' = ticks /\ nap' = [nap EXCEPT ![p] = m]  BY <1>1, <1>2, Zenon DEF sys_sleep
  <1>4. ticks \in 0..WORD-1 /\ 0 \in 0..LAG  BY ClockNats DEF ClockOK
  <1>5. /\ k \in NapRec /\ k.st = "asleep" /\ k.n = n /\ k.ticks0 = ticks
        /\ k.passed = 0 /\ k.late = 0
    BY <1>1, <1>4, NapFields
  <1>6. (ticks - ticks) % WORD = 0
    <2>1. ticks - ticks = 0  BY <1>4
    <2>2. 0 % WORD = 0  BY ClockNats
    <2> QED  BY <2>1, <2>2
  <1>7. PICK c \in Nat : c = n % WORD  BY NapRange
  <1>8. Overdue(k) <=> c = 0  BY <1>5, <1>6, <1>7 DEF Overdue
  <1>9. m \in NapRec /\ NapOK(m, ticks)
    <2>1. CASE Overdue(k)
      <3>1. m = Nap("returned", n, ticks, 0, 0)  BY <1>2, <1>5, <2>1 DEF Becomes
      <3>2. m \in NapRec /\ m.st = "returned" /\ m.n = n /\ m.passed = 0
        BY <1>4, <3>1, NapFields
      <3>3. 0 >= c /\ 0 <= c + LAG  BY <1>8, <2>1, ClockNats
      <3> QED  BY <1>7, <3>2, <3>3 DEF NapOK
    <2>2. CASE ~Overdue(k)
      <3>1. m = k /\ 0 < c  BY <1>2, <1>7, <1>8, <2>2
      <3> QED  BY <1>5, <1>6, <1>7, <3>1 DEF NapOK
    <2> QED  BY <2>1, <2>2
  <1> QED  BY <1>3, <1>9, NapStep, Zenon

\* A woken process is overdue or sleeps again; a killed one gives up.
LEMMA WakeStep ==
  ASSUME ClockOK, NEW p \in Sleeper, Wake(p)
  PROVE  ClockOK'
  <1>1. PICK k : k = nap[p]  OBVIOUS
  <1>2. k \in NapRec /\ NapOK(k, ticks) /\ k.st = "woken" /\ ticks' = ticks
    BY <1>1, Zenon DEF Wake, ClockOK
  <1>3. PICK m : m = CASE Overdue(k)                        -> Becomes(k, "returned", k.passed, 0)
                       [] ~Overdue(k) /\ p \in killedNap    -> Up
                       [] ~Overdue(k) /\ p \notin killedNap -> Becomes(k, "asleep", k.passed, 0)
    OBVIOUS
  <1>4. nap' = [nap EXCEPT ![p] = m]  BY <1>1, <1>3, Zenon DEF Wake
  <1>5. \/ m = Nap("returned", k.n, k.ticks0, k.passed, 0) /\ Overdue(k)
        \/ m = Up
        \/ m = Nap("asleep", k.n, k.ticks0, k.passed, 0) /\ ~Overdue(k)
    BY <1>3 DEF Becomes
  <1>6. /\ k.n \in Naps /\ k.passed \in Nat /\ k.late \in 0..LAG /\ k.ticks0 \in 0..WORD-1
        /\ (ticks - k.ticks0) % WORD = k.passed /\ k.passed <= (k.n % WORD) + k.late
        /\ Overdue(k) <=> k.passed >= k.n % WORD
    BY <1>2, NapType, Zenon DEF NapOK, Overdue
  <1>7. PICK c \in Nat : c = k.n % WORD  BY <1>6, NapRange
  <1>8. 0 \in 0..LAG  BY ClockNats
  <1>9. CASE m = Up  BY <1>2, <1>4, <1>9, UpOK, NapStep, Zenon
  <1>10. CASE m = Nap("returned", k.n, k.ticks0, k.passed, 0) /\ Overdue(k)
    <2>1. m \in NapRec /\ m.st = "returned" /\ m.n = k.n /\ m.passed = k.passed
      BY <1>6, <1>8, <1>10, NapFields
    <2>2. k.passed >= c /\ k.passed <= c + LAG  BY <1>6, <1>7, <1>10, ClockNats
    <2>3. NapOK(m, ticks)  BY <1>6, <1>7, <2>1, <2>2, Zenon DEF NapOK
    <2> QED  BY <1>2, <1>4, <2>1, <2>3, NapStep, Zenon
  <1>11. CASE m = Nap("asleep", k.n, k.ticks0, k.passed, 0) /\ ~Overdue(k)
    <2>1. /\ m \in NapRec /\ m.st = "asleep" /\ m.n = k.n /\ m.passed = k.passed
          /\ m.ticks0 = k.ticks0 /\ m.late = 0
      BY <1>6, <1>8, <1>11, NapFields
    <2>2. k.passed < c  BY <1>6, <1>7, <1>11
    <2>3. NapOK(m, ticks)  BY <1>6, <1>7, <2>1, <2>2, Zenon DEF NapOK
    <2> QED  BY <1>2, <1>4, <2>1, <2>3, NapStep, Zenon
  <1> QED  BY <1>5, <1>9, <1>10, <1>11, Zenon

\* kill() wakes the process before its time.
LEMMA KillNapStep ==
  ASSUME ClockOK, NEW p \in Sleeper, KillNap(p)
  PROVE  ClockOK'
  <1>1. PICK k : k = nap[p]  OBVIOUS
  <1>2. k \in NapRec /\ NapOK(k, ticks) /\ k.st \in {"asleep", "woken"} /\ ticks' = ticks
    BY <1>1, Zenon DEF KillNap, ClockOK
  <1>3. PICK m : m = Nap("woken", k.n, k.ticks0, k.passed, k.late)  OBVIOUS
  <1>4. nap' = [nap EXCEPT ![p] = m] \/ nap' = nap
    BY <1>1, <1>3, Zenon DEF KillNap, Becomes
  <1>5. /\ k.n \in Naps /\ k.passed \in Nat /\ k.late \in 0..LAG /\ k.ticks0 \in 0..WORD-1
        /\ (ticks - k.ticks0) % WORD = k.passed
    BY <1>2, NapType, Zenon DEF NapOK
  <1>6. /\ m \in NapRec /\ m.st = "woken" /\ m.n = k.n /\ m.passed = k.passed
        /\ m.ticks0 = k.ticks0 /\ m.late = k.late
    BY <1>3, <1>5, NapFields
  <1>7. PICK c \in Nat : c = k.n % WORD  BY <1>5, NapRange
  <1>8. k.passed <= c + k.late  BY <1>2, <1>5, <1>7 DEF NapOK
  <1>9. NapOK(m, ticks)  BY <1>5, <1>6, <1>7, <1>8, Zenon DEF NapOK
  <1> QED  BY <1>2, <1>4, <1>6, <1>9, NapStep DEF ClockOK

\* Every step keeps the invariant.
LEMMA ClockNextOK ==
  ASSUME ClockOK, [ClockNext]_clockVars
  PROVE  ClockOK'
  <1>1. CASE UNCHANGED clockVars  BY <1>1 DEF clockVars, ClockOK
  <1>2. ASSUME NEW p \in Sleeper, Resume(p) PROVE ClockOK'
    BY <1>2, UpOK, NapStep, Zenon DEF Resume
  <1> QED  BY <1>1, <1>2, TimerStep, SleepStep, WakeStep, KillNapStep, Zenon DEF ClockNext

\* SleepExact: sys_sleep() never returns early and at most LAG ticks late, for every
\* width of the counter and wherever it wraps around.
THEOREM SleepExactHolds == ClockSpec => []SleepExact
  <1>1. ClockInit => ClockOK
    <2> SUFFICES ASSUME ClockInit PROVE ClockOK  OBVIOUS
    <2>1. ticks \in 0..WORD-1  BY ClockAssumption DEF ClockInit
    <2> QED  BY <2>1, UpOK DEF ClockInit, ClockOK
  <1>2. ClockOK /\ [ClockNext]_clockVars => ClockOK'  BY ClockNextOK
  <1>3. ClockOK => SleepExact
    <2> SUFFICES ASSUME ClockOK, NEW p \in Sleeper
                 PROVE  /\ nap[p].st = "returned" =>
                             nap[p].passed \in (nap[p].n % WORD)..(nap[p].n % WORD) + LAG
                        /\ nap[p].st # "up" => nap[p].passed <= (nap[p].n % WORD) + LAG
      BY Zenon DEF SleepExact
    <2>1. PICK k : k = nap[p]  OBVIOUS
    <2>2. k \in NapRec /\ NapOK(k, ticks)  BY <2>1, Zenon DEF ClockOK
    <2>3. CASE k.st = "up"  BY <2>1, <2>3
    <2>4. CASE k.st # "up"
      <3>1. /\ k.n \in Naps /\ k.passed \in Nat /\ k.late \in 0..LAG
            /\ k.st \in {"asleep", "woken", "returned"}
        BY <2>2, <2>4, NapType, Zenon DEF NapOK
      <3>2. PICK c \in Nat : c = k.n % WORD  BY <3>1, NapRange
      <3>3. k.passed <= c + LAG /\ (k.st = "returned" => k.passed >= c)
        BY <2>2, <3>1, <3>2, ClockNats DEF NapOK
      <3> QED  BY <2>1, <3>1, <3>2, <3>3, ClockNats
    <2> QED  BY <2>3, <2>4
  <1> QED  BY <1>1, <1>2, <1>3, PTL DEF ClockSpec

-----------------------------------------------------------------------------
\* ContextsOK, and: the thread on the CPU has its slot until the process ends, and
\* a slot that is not free has been given a context and a turn.
ThreadsOK ==
  /\ tstate \in [SlotId -> {"FREE", "RUNNING", "RUNNABLE"}]
  /\ context = [t \in SlotId |-> context[t]] /\ turn = [t \in SlotId |-> turn[t]]
  /\ current \in SlotId /\ over \in BOOLEAN
  /\ ~over => tstate[current] # "FREE"
  /\ ContextsOK

\* The first slot of a set that has one.
LEMMA LeastIn ==
  ASSUME NEW S \in SUBSET SlotId, S # {}
  PROVE  Least(S) \in S /\ \A y \in S : Least(S) <= y
  <1>1. S \subseteq Nat  BY ThreadAssumption DEF SlotId
  <1>2. PICK x \in S : \A y \in S : ~(<<y, x>> \in OpToRel(<, Nat))
    BY <1>1, NatLessThanWellFounded, WFMin, Zenon
  <1>3. \A y \in S : x <= y
    <2> TAKE y \in S
    <2>1. ~(y < x)  BY <1>1, <1>2, Zenon DEF OpToRel
    <2> QED  BY <1>1, <2>1
  <1> QED  BY <1>3 DEF Least

\* thread_schedule() finds another thread, goes on with the only one, or ends the
\* process: none of it disturbs the contexts of the threads that wait.
LEMMA ScheduleOK ==
  ASSUME ThreadsOK, ~over, NEW ts \in [SlotId -> {"FREE", "RUNNING", "RUNNABLE"}], NEW tn,
         tn = [t \in SlotId |-> tn[t]],
         \A t \in SlotId : t # current => ts[t] = tstate[t],
         \A t \in SlotId : t # current => tn[t] = turn[t],
         current = 0 => ts[0] = "RUNNING",
         current # 0 => ts[current] \in {"FREE", "RUNNABLE"},
         thread_schedule(ts, tn)
  PROVE  ThreadsOK'
  <1> DEFINE others == {t \in SlotId : ts[t] = "RUNNABLE" /\ t # current}
  <1>0. current \in SlotId /\ 0 \in SlotId  BY ThreadAssumption DEF ThreadsOK, SlotId
  <1>1. CASE others # {}
    <2>1. PICK nx \in others : nx = Least(others)  BY <1>1, LeastIn, Zenon
    <2>2. thread_switch(ts, tn, nx)  BY <1>1, <2>1, Zenon DEF thread_schedule
    <2>3. /\ nx \in SlotId /\ nx # current /\ ts[nx] = "RUNNABLE" /\ tstate[nx] = "RUNNABLE" /\ nx # 0
      BY <2>1 DEF ThreadsOK, ContextsOK
    <2>4. /\ tstate' = [ts EXCEPT ![nx] = "RUNNING"]
          /\ context' = [context EXCEPT ![current] = tn[current], ![nx] = None]
          /\ turn' = [tn EXCEPT ![nx] = context[nx]]
          /\ current' = nx /\ over' = over
      BY <2>2, Zenon DEF thread_switch
    <2>5. /\ tstate' \in [SlotId -> {"FREE", "RUNNING", "RUNNABLE"}]
          /\ tstate'[nx] = "RUNNING" /\ \A t \in SlotId : t # nx => tstate'[t] = ts[t]
      BY <2>3, <2>4
    <2>6. /\ context' = [t \in SlotId |-> context'[t]]
          /\ context'[current] = tn[current]
          /\ \A t \in SlotId : t \notin {nx, current} => context'[t] = context[t]
      BY <1>0, <2>3, <2>4, Zenon DEF ThreadsOK
    <2>7. /\ turn' = [t \in SlotId |-> turn'[t]]
          /\ \A t \in SlotId : t # nx => turn'[t] = tn[t]
      BY <2>3, <2>4
    <2>8. tstate'[0] = "RUNNING"
      BY <1>0, <2>3, <2>5 DEF ThreadsOK, ContextsOK
    <2>9. ASSUME NEW t \in SlotId \ {0}, tstate'[t] = "RUNNABLE", t # nx
          PROVE  context'[t] = turn'[t]
      <3>1. CASE t = current  BY <2>6, <2>7, <2>9, <3>1
      <3>2. CASE t # current
        <4>1. tstate[t] = "RUNNABLE"  BY <2>5, <2>9, <3>2
        <4>2. context[t] = turn[t]  BY <3>2, <4>1, Zenon DEF ThreadsOK, ContextsOK
        <4> QED  BY <2>6, <2>7, <2>9, <3>2, <4>2, Zenon
      <3> QED  BY <3>1, <3>2
    <2>10. ASSUME NEW t \in SlotId \ {0}, tstate'[t] = "RUNNING"  PROVE t = nx
      BY <2>5, <2>10 DEF ThreadsOK, ContextsOK
    <2>11. ContextsOK'  BY <2>4, <2>8, <2>9, <2>10 DEF ContextsOK
    <2> QED  BY <2>3, <2>4, <2>5, <2>6, <2>7, <2>11 DEF ThreadsOK
  <1>2. CASE others = {}
    <2>1. /\ over' = (ts[current] # "RUNNABLE")
          /\ tstate' = ts /\ turn' = tn /\ UNCHANGED <<context, current>>
      BY <1>2, Zenon DEF thread_schedule
    <2>2. \A t \in SlotId : t # current => ts[t] # "RUNNABLE"  BY <1>2
    <2>3. ts[0] = "RUNNING"  BY <1>0 DEF ThreadsOK, ContextsOK
    <2>4. \A t \in SlotId \ {0} : ts[t] = "RUNNING" => t = current
      BY DEF ThreadsOK, ContextsOK
    <2>5. over' => \A t \in SlotId : ts[t] # "RUNNABLE"  BY <2>1, <2>2, Zenon
    <2>6. ContextsOK'  BY <2>1, <2>2, <2>3, <2>4, <2>5 DEF ContextsOK
    <2>7. ~over' => ts[current] # "FREE"  BY <2>1, Zenon
    <2> QED  BY <1>0, <2>1, <2>6, <2>7 DEF ThreadsOK
  <1> QED  BY <1>1, <1>2

\* thread_create() never takes the slot of a thread that is there.
LEMMA CreateOK ==
  ASSUME ThreadsOK, thread_create
  PROVE  ThreadsOK'
  <1>0. CASE Free = {}
    BY <1>0 DEF thread_create, ThreadsOK, ContextsOK
  <1> SUFFICES ASSUME Free # {} PROVE ThreadsOK'  BY <1>0
  <1>1. PICK s \in Free : s = Least(Free)
    <2>1. Free \in SUBSET SlotId /\ Free # {}  BY DEF Free
    <2> QED  BY <2>1, LeastIn
  <1>2. /\ tstate' = [tstate EXCEPT ![s] = "RUNNABLE"] /\ context' = [context EXCEPT ![s] = 0]
        /\ turn' = [turn EXCEPT ![s] = 0] /\ UNCHANGED <<current, over>> /\ ~over
    BY <1>1, Zenon DEF thread_create
  <1>3. s \in SlotId /\ tstate[s] = "FREE" /\ s # current /\ s # 0
    BY <1>1, <1>2 DEF Free, ThreadsOK, ContextsOK
  <1>4. /\ tstate' \in [SlotId -> {"FREE", "RUNNING", "RUNNABLE"}]
        /\ tstate'[s] = "RUNNABLE" /\ \A t \in SlotId : t # s => tstate'[t] = tstate[t]
    BY <1>2, <1>3 DEF ThreadsOK
  <1>5. /\ context' = [t \in SlotId |-> context'[t]] /\ context'[s] = 0
        /\ \A t \in SlotId : t # s => context'[t] = context[t]
    BY <1>2, <1>3 DEF ThreadsOK
  <1>6. /\ turn' = [t \in SlotId |-> turn'[t]] /\ turn'[s] = 0
        /\ \A t \in SlotId : t # s => turn'[t] = turn[t]
    BY <1>2, <1>3 DEF ThreadsOK
  <1>7. ContextsOK'
    <2>1. 0 \in SlotId  BY ThreadAssumption DEF SlotId
    <2> QED  BY <1>2, <1>3, <1>4, <1>5, <1>6, <2>1 DEF ThreadsOK, ContextsOK
  <1> QED  BY <1>2, <1>3, <1>4, <1>5, <1>6, <1>7 DEF ThreadsOK

\* Every step keeps the invariant.
LEMMA ThreadNextOK ==
  ASSUME ThreadsOK, [ThreadNext]_threadVars
  PROVE  ThreadsOK'
  <1>0. current \in SlotId /\ 0 \in SlotId  BY ThreadAssumption DEF ThreadsOK, SlotId
  <1>1. CASE UNCHANGED threadVars  BY <1>1 DEF threadVars, ThreadsOK, ContextsOK
  <1>2. CASE Schedule
    <2>1. ~over /\ current = 0 /\ thread_schedule(tstate, turn)  BY <1>2 DEF Schedule
    <2>2. /\ tstate \in [SlotId -> {"FREE", "RUNNING", "RUNNABLE"}] /\ tstate[0] = "RUNNING"
          /\ turn = [t \in SlotId |-> turn[t]]
      BY DEF ThreadsOK, ContextsOK
    <2>3. /\ \A t \in SlotId : t # current => tstate[t] = tstate[t]
          /\ \A t \in SlotId : t # current => turn[t] = turn[t]
      OBVIOUS
    <2> QED  BY <2>1, <2>2, <2>3, ScheduleOK, Zenon
  <1>3. ASSUME NEW ts, NEW tn, NEW s \in {"FREE", "RUNNABLE"}, NEW n, ~over, current # 0,
               ts = [tstate EXCEPT ![current] = s], tn = [turn EXCEPT ![current] = n],
               thread_schedule(ts, tn)
        PROVE  ThreadsOK'
    <2>1. /\ ts \in [SlotId -> {"FREE", "RUNNING", "RUNNABLE"}] /\ ts[current] = s
          /\ \A t \in SlotId : t # current => ts[t] = tstate[t]
      BY <1>0, <1>3 DEF ThreadsOK
    <2>2. tn = [t \in SlotId |-> tn[t]] /\ \A t \in SlotId : t # current => tn[t] = turn[t]
      BY <1>0, <1>3 DEF ThreadsOK
    <2>3. current # 0 => ts[current] \in {"FREE", "RUNNABLE"}  BY <2>1
    <2> QED  BY <1>3, <2>1, <2>2, <2>3, ScheduleOK, Zenon
  <1>4. CASE thread_yield
    BY <1>3, <1>4, Zenon DEF thread_yield
  <1>5. CASE thread_exit
    <2>1. turn = [turn EXCEPT ![current] = turn[current]]  BY <1>0 DEF ThreadsOK
    <2>2. PICK ts, tn : /\ ts = [tstate EXCEPT ![current] = "FREE"]
                        /\ tn = [turn EXCEPT ![current] = turn[current]]
      BY Zenon
    <2>3. thread_schedule(ts, tn) /\ ~over /\ current # 0
      BY <1>5, <2>1, <2>2, Zenon DEF thread_exit
    <2> QED  BY <1>3, <2>2, <2>3, Zenon
  <1> QED  BY <1>1, <1>2, <1>4, <1>5, CreateOK, Zenon DEF ThreadNext

\* The threads have taken slots from the first on: a slot in use is not above the
\* number of calls of thread_create(), which therefore has to reach MAX_THREAD
\* before one of them finds no slot.
SlotsOK ==
  /\ made \in Nat /\ overrun \in BOOLEAN
  /\ \A t \in SlotId : tstate[t] # "FREE" => t <= made
  /\ overrun => made >= MAX_THREAD

\* thread_schedule() takes no slot.
LEMMA ScheduleSlots ==
  ASSUME ThreadsOK, SlotsOK, NEW ts \in [SlotId -> {"FREE", "RUNNING", "RUNNABLE"}], NEW tn,
         \A t \in SlotId : ts[t] # "FREE" => tstate[t] # "FREE",
         thread_schedule(ts, tn)
  PROVE  SlotsOK'
  <1> DEFINE others == {t \in SlotId : ts[t] = "RUNNABLE" /\ t # current}
  <1>1. made' = made /\ overrun' = overrun
    BY DEF thread_schedule, thread_switch
  <1>2. \A t \in SlotId : tstate'[t] # "FREE" => ts[t] # "FREE"
    <2>1. CASE others # {}
      <3>1. PICK nx \in others : nx = Least(others)  BY <2>1, LeastIn, Zenon
      <3>2. thread_switch(ts, tn, nx)  BY <2>1, <3>1, Zenon DEF thread_schedule
      <3>3. tstate' = [ts EXCEPT ![nx] = "RUNNING"]  BY <3>2, Zenon DEF thread_switch
      <3> QED  BY <3>1, <3>3
    <2>2. CASE others = {}
      <3>1. tstate' = ts  BY <2>2, Zenon DEF thread_schedule
      <3> QED  BY <3>1, Zenon
    <2> QED  BY <2>1, <2>2
  <1> QED  BY <1>1, <1>2, Zenon DEF SlotsOK

\* thread_create() takes the slot after those in use, or an earlier one.
LEMMA CreateSlots ==
  ASSUME ThreadsOK, SlotsOK, thread_create
  PROVE  SlotsOK'
  <1>1. made' = made + 1 /\ overrun' = (Free = {})  BY Zenon DEF thread_create
  <1>2. CASE Free = {}
    <2>1. MAX_THREAD - 1 \in SlotId /\ MAX_THREAD \in Nat  BY ThreadAssumption DEF SlotId
    <2>2. tstate[MAX_THREAD - 1] # "FREE"  BY <1>2, <2>1 DEF Free
    <2>3. MAX_THREAD - 1 <= made  BY <2>1, <2>2, Zenon DEF SlotsOK
    <2>4. tstate' = tstate  BY <1>2, Zenon DEF thread_create
    <2> QED  BY <1>1, <2>1, <2>3, <2>4, ThreadAssumption DEF SlotsOK, SlotId
  <1>3. CASE Free # {}
    <2>1. PICK s \in Free : s = Least(Free) /\ \A y \in Free : s <= y
      <3>1. Free \in SUBSET SlotId  BY DEF Free
      <3> QED  BY <1>3, <3>1, LeastIn
    <2>2. tstate' = [tstate EXCEPT ![s] = "RUNNABLE"]  BY <1>3, <2>1, Zenon DEF thread_create
    <2>3. s \in SlotId  BY <2>1, Zenon DEF Free
    <2>4. s <= made + 1
      <3>1. CASE s = 0  BY <3>1 DEF SlotsOK
      <3>2. CASE s # 0
        <4>1. s - 1 \in SlotId  BY <2>3, <3>2, ThreadAssumption DEF SlotId
        <4>2. s - 1 \notin Free  BY <2>1, <2>3, ThreadAssumption DEF SlotId
        <4>3. tstate[s - 1] # "FREE"  BY <4>1, <4>2 DEF Free
        <4>4. s - 1 <= made  BY <4>1, <4>3, Zenon DEF SlotsOK
        <4> QED  BY <2>3, <4>4, ThreadAssumption DEF SlotsOK, SlotId
      <3> QED  BY <3>1, <3>2
    <2>5. overrun' = FALSE  BY <1>1, <1>3, Zenon
    <2>6. \A t \in SlotId : tstate'[t] # "FREE" => t = s \/ tstate[t] # "FREE"
      BY <2>2, <2>3 DEF ThreadsOK
    <2>7. made \in Nat /\ \A t \in SlotId : t <= made => t <= made + 1
      BY ThreadAssumption DEF SlotsOK, SlotId
    <2>8. \A t \in SlotId : tstate'[t] # "FREE" => t <= made + 1
      BY <2>4, <2>6, <2>7, Zenon DEF SlotsOK
    <2> QED  BY <1>1, <2>5, <2>7, <2>8 DEF SlotsOK
  <1> QED  BY <1>2, <1>3

\* Every step keeps it.
LEMMA SlotsNextOK ==
  ASSUME ThreadsOK, SlotsOK, [ThreadNext]_threadVars
  PROVE  SlotsOK'
  <1>0. /\ tstate \in [SlotId -> {"FREE", "RUNNING", "RUNNABLE"}] /\ current \in SlotId
        /\ ~over => tstate[current] # "FREE"
    BY Zenon DEF ThreadsOK
  <1>1. CASE UNCHANGED threadVars  BY <1>1 DEF threadVars, SlotsOK
  <1>2. CASE Schedule
    BY <1>0, <1>2, ScheduleSlots, Zenon DEF Schedule
  <1>3. ASSUME NEW ts, NEW tn, NEW s \in {"FREE", "RUNNABLE"}, ~over,
               ts = [tstate EXCEPT ![current] = s], thread_schedule(ts, tn)
        PROVE  SlotsOK'
    <2>1. /\ ts \in [SlotId -> {"FREE", "RUNNING", "RUNNABLE"}]
          /\ \A t \in SlotId : ts[t] # "FREE" => tstate[t] # "FREE"
      BY <1>0, <1>3
    <2> QED  BY <1>3, <2>1, ScheduleSlots, Zenon
  <1>4. CASE thread_yield  BY <1>3, <1>4, Zenon DEF thread_yield
  <1>5. CASE thread_exit  BY <1>3, <1>5, Zenon DEF thread_exit
  <1> QED  BY <1>1, <1>2, <1>4, <1>5, CreateSlots, Zenon DEF ThreadNext

\* ThreadsSound: until thread_create() finds no free slot, which takes MAX_THREAD calls,
\* a waiting thread is resumed where it gave up the CPU, and the process ends only when
\* no thread is left, whatever the order of thread_create(), thread_yield() and
\* thread_exit(); for any number of slots.
THEOREM ThreadsSoundHolds == ThreadSpec => []ThreadsSound
  <1>1. ThreadInit => ThreadsOK /\ SlotsOK
    <2> SUFFICES ASSUME ThreadInit PROVE ThreadsOK /\ SlotsOK  OBVIOUS
    <2>1. 0 \in SlotId  BY ThreadAssumption DEF SlotId
    <2>2. /\ tstate \in [SlotId -> {"FREE", "RUNNING", "RUNNABLE"}] /\ tstate[0] = "RUNNING"
          /\ \A t \in SlotId \ {0} : tstate[t] = "FREE"
      BY <2>1 DEF ThreadInit
    <2>3. /\ context = [t \in SlotId |-> context[t]] /\ turn = [t \in SlotId |-> turn[t]]
          /\ current = 0 /\ over = FALSE
      BY DEF ThreadInit
    <2>4. SlotsOK
      <3>1. made = 0 /\ overrun = FALSE  BY DEF ThreadInit
      <3>2. \A t \in SlotId : tstate[t] # "FREE" => t = 0  BY <2>2, Zenon
      <3>3. made \in Nat /\ 0 <= made  BY <3>1
      <3> QED  BY <3>1, <3>2, <3>3, Zenon DEF SlotsOK
    <2>5. ThreadsOK  BY <2>1, <2>2, <2>3, Zenon DEF ThreadsOK, ContextsOK
    <2> QED  BY <2>4, <2>5
  <1>2. ThreadsOK /\ SlotsOK /\ [ThreadNext]_threadVars => (ThreadsOK /\ SlotsOK)'
    BY ThreadNextOK, SlotsNextOK
  <1>3. ThreadsOK /\ SlotsOK => ThreadsSound  BY DEF ThreadsOK, SlotsOK, ThreadsSound
  <1> QED  BY <1>1, <1>2, <1>3, PTL DEF ThreadSpec

-----------------------------------------------------------------------------
\* The inductive invariant of the arguments: a process ends below KERNBASE.
ArgsOK == sz \in 1..KERNBASE /\ ArgsInside

\* A sum below the range of uint does not wrap around.
LEMMA NoWrap ==
  ASSUME NEW a \in Nat, NEW n \in Nat, a + n < UINT
  PROVE  Plus(a, n) = a + n
  BY ArgsAssumption DEF Plus

\* fetchint(): an accepted argument word is inside the process, whatever esp was.
LEMMA WordInside ==
  ASSUME ArgsOK, NEW esp \in UInt, argint(esp)
  PROVE  Word(esp) \subseteq 0..sz-1
  <1>1. ArgAt(esp) \in Nat  BY ArgsAssumption DEF UInt, ArgAt, Plus
  <1>2. PICK a \in Nat : a = ArgAt(esp)  BY <1>1
  <1>3. a < sz /\ ~(Plus(a, INT) > sz)
    <2>1. ~(a >= sz) /\ ~(Plus(a, INT) > sz)  BY <1>2, Zenon DEF argint, fetchint
    <2> QED  BY <2>1 DEF ArgsOK
  <1>4. Plus(a, INT) = a + INT
    <2>1. a + INT < UINT /\ INT \in Nat  BY <1>3, ArgsAssumption DEF ArgsOK
    <2> QED  BY <2>1, NoWrap
  <1>5. a + INT <= sz  BY <1>3, <1>4, ArgsAssumption DEF ArgsOK
  <1> QED  BY <1>2, <1>5, ArgsAssumption DEF Word, ArgsOK

\* argptr(): so is an accepted block.
LEMMA BlockInside ==
  ASSUME ArgsOK, NEW i \in UInt, NEW size \in -1..KERNBASE, argptr(i, size)
  PROVE  {i + k : k \in 0..size-1} \subseteq 0..sz-1
  <1>1. i \in Nat /\ size \in Nat /\ i < sz /\ ~(Plus(i, size) > sz)
    BY ArgsAssumption DEF argptr, UInt, ArgsOK
  <1>2. Plus(i, size) = i + size
    <2>1. i + size < UINT  BY <1>1, ArgsAssumption DEF ArgsOK
    <2> QED  BY <1>1, <2>1, NoWrap
  <1>3. i + size <= sz  BY <1>1, <1>2 DEF ArgsOK
  <1> QED  BY <1>1, <1>3 DEF ArgsOK

\* fetchstr(): it stops at the end of the process.
LEMMA StringInside ==
  ASSUME ArgsOK, NEW i \in UInt, NEW nul \in UInt
  PROVE  fetchstr(i, nul) \subseteq 0..sz-1
  BY ArgsAssumption DEF fetchstr, UInt, ArgsOK

\* Whatever a process passes, the kernel touches its own memory only, for every
\* width of uint, size of int and KERNBASE.
THEOREM ArgsInsideHolds == ArgsSpec => []ArgsInside
  <1>1. ArgsInit => ArgsOK  BY ArgsAssumption DEF ArgsInit, ArgsOK, ArgsInside
  <1>2. ArgsOK /\ [ArgsNext]_argVars => ArgsOK'
    <2> SUFFICES ASSUME ArgsOK, [ArgsNext]_argVars PROVE ArgsOK'  OBVIOUS
    <2>1. ASSUME NEW esp \in UInt, NEW i \in UInt, NEW size \in -1..KERNBASE, Fetch(esp, i, size)
          PROVE  ArgsOK'
      <3>1. touched' \subseteq 0..sz-1
        BY <2>1, WordInside, BlockInside, Zenon DEF Fetch
      <3> QED  BY <2>1, <3>1, Zenon DEF Fetch, ArgsOK, ArgsInside
    <2>2. ASSUME NEW esp \in UInt, NEW i \in UInt, NEW nul \in UInt, argstr(esp, i, nul)
          PROVE  ArgsOK'
      <3>1. touched' \subseteq 0..sz-1
        BY <2>2, WordInside, StringInside, Zenon DEF argstr
      <3> QED  BY <2>2, <3>1, Zenon DEF argstr, ArgsOK, ArgsInside
    <2>3. ASSUME NEW n \in 1..KERNBASE-1, Resize(n)  PROVE ArgsOK'
      BY <2>3, ArgsAssumption DEF Resize, ArgsOK, ArgsInside
    <2>4. CASE UNCHANGED argVars  BY <2>4, Zenon DEF argVars, ArgsOK, ArgsInside
    <2> QED  BY <2>1, <2>2, <2>3, <2>4, Zenon DEF ArgsNext
  <1>3. ArgsOK => ArgsInside  BY Zenon DEF ArgsOK
  <1> QED  BY <1>1, <1>2, <1>3, PTL DEF ArgsSpec
=============================================================================
