------------------------------ MODULE SleepLock ------------------------------
(***************************************************************************)
(* xv6/sleeplock.c over sleep() and wakeup() of xv6/proc.c.                *)
(*                                                                         *)
(* The spin lock inside each sleep lock (lk->lk) and ptable.lock are       *)
(* atomic mutexes, which SpinLock.tla shows spin locks to be: a variable   *)
(* names the owner.  What is kept apart is everything another process can  *)
(* slip between: sleep()'s acquire(&ptable.lock), release(lk), the store   *)
(* of SLEEPING, the return through the scheduler, acquire(lk), and the     *)
(* two halves of releasesleep().  RUNNING and RUNNABLE are not told apart  *)
(* (Proc.tla does): a process that is not SLEEPING may take its next step. *)
(***************************************************************************)
EXTENDS Naturals

CONSTANTS Proc,      \* the processes
          Lock,      \* the sleep locks
          NoProc,    \* owner of a free lock
          NoLock,    \* no channel, no argument
          MayNest,   \* <<l, m>>: some path acquires m while it holds l
          MaxKills   \* bound on the kills of processes in this system

ASSUME SleepLockAssumption ==
  /\ NoProc \notin Proc
  /\ NoLock \notin Lock
  /\ MaxKills \in Nat
  /\ MayNest \subseteq Lock \X Lock
  /\ \A l \in Lock : <<l, l>> \notin MayNest

VARIABLES
  locked,  \* lk->locked
  pid,     \* lk->pid
  lk,      \* owner of the spin lock lk->lk
  ptable,  \* owner of ptable.lock
  state,   \* p->state
  chan,    \* p->chan
  pc,      \* where the process is; "run" is outside sleeplock.c
  arg,     \* the lock it is called with
  held,    \* the sleep locks the process has acquired and not yet released
  kills    \* kills so far

vars == <<locked, pid, lk, ptable, state, chan, pc, arg, held, kills>>

TypeOK ==
  /\ locked \in [Lock -> BOOLEAN]
  /\ pid \in [Lock -> Proc \cup {NoProc}]
  /\ lk \in [Lock -> Proc \cup {NoProc}]
  /\ ptable \in Proc \cup {NoProc}
  /\ state \in [Proc -> {"RUNNABLE", "SLEEPING"}]
  /\ chan \in [Proc -> Lock \cup {NoLock}]
  /\ pc \in [Proc -> {"run", "while", "sleep0", "sleep1", "sleep", "tidy", "sleep2", "wakeup"}]
  /\ arg \in [Proc -> Lock \cup {NoLock}]
  /\ held \in [Proc -> SUBSET Lock]
  /\ kills \in 0..MaxKills

\* initsleeplock() on every lock.
Init ==
  /\ locked = [l \in Lock |-> FALSE]
  /\ pid = [l \in Lock |-> NoProc]
  /\ lk = [l \in Lock |-> NoProc]
  /\ ptable = NoProc
  /\ state = [p \in Proc |-> "RUNNABLE"]
  /\ chan = [p \in Proc |-> NoLock]
  /\ pc = [p \in Proc |-> "run"]
  /\ arg = [p \in Proc |-> NoLock]
  /\ held = [p \in Proc |-> {}]
  /\ kills = 0

At(p, label) == state[p] = "RUNNABLE" /\ pc[p] = label
GoTo(p, label) == pc' = [pc EXCEPT ![p] = label]

-----------------------------------------------------------------------------
\* acquiresleep(l): acquire(&lk->lk).
AcquireSleep(p, l) ==
  /\ At(p, "run") /\ lk[l] = NoProc
  /\ \A m \in held[p] : <<m, l>> \in MayNest
  /\ lk' = [lk EXCEPT ![l] = p]
  /\ arg' = [arg EXCEPT ![p] = l]
  /\ GoTo(p, "while")
  /\ UNCHANGED <<locked, pid, ptable, state, chan, held, kills>>

\* The loop test: call sleep(lk, &lk->lk), or take the lock, release lk->lk
\* and return.
While(p) ==
  /\ At(p, "while")
  /\ IF locked[arg[p]]
       THEN GoTo(p, "sleep0") /\ UNCHANGED <<locked, pid, lk, held, arg>>
       ELSE /\ locked' = [locked EXCEPT ![arg[p]] = TRUE]
            /\ pid' = [pid EXCEPT ![arg[p]] = p]
            /\ lk' = [lk EXCEPT ![arg[p]] = NoProc]
            /\ held' = [held EXCEPT ![p] = @ \cup {arg[p]}]
            /\ arg' = [arg EXCEPT ![p] = NoLock]
            /\ GoTo(p, "run")
  /\ UNCHANGED <<ptable, state, chan, kills>>

\* Faulty: sleep() that releases lk before it acquires ptable.lock.
SleepAcquireLate(p) ==
  /\ At(p, "sleep0")
  /\ \/ /\ lk[arg[p]] = p
        /\ lk' = [lk EXCEPT ![arg[p]] = NoProc]
        /\ UNCHANGED <<ptable, pc>>
     \/ /\ lk[arg[p]] # p /\ ptable = NoProc
        /\ ptable' = p
        /\ GoTo(p, "sleep")
        /\ UNCHANGED lk
  /\ UNCHANGED <<locked, pid, state, chan, arg, held, kills>>

\* sleep(): acquire(&ptable.lock) ...
SleepAcquire(p) ==
  /\ At(p, "sleep0") /\ ptable = NoProc
  /\ ptable' = p
  /\ GoTo(p, "sleep1")
  /\ UNCHANGED <<locked, pid, lk, state, chan, arg, held, kills>>

\* ... then release(lk) ...
SleepRelease(p) ==
  /\ At(p, "sleep1")
  /\ lk' = [lk EXCEPT ![arg[p]] = NoProc]
  /\ GoTo(p, "sleep")
  /\ UNCHANGED <<locked, pid, ptable, state, chan, arg, held, kills>>

\* ... then chan, SLEEPING and sched(), whose scheduler releases ptable.lock.
SleepSched(p) ==
  /\ At(p, "sleep")
  /\ chan' = [chan EXCEPT ![p] = arg[p]]
  /\ state' = [state EXCEPT ![p] = "SLEEPING"]
  /\ ptable' = NoProc
  /\ GoTo(p, "tidy")
  /\ UNCHANGED <<locked, pid, lk, arg, held, kills>>

\* The scheduler, with ptable.lock, switches back to the process, which clears
\* chan and releases ptable.lock ...
SleepTidy(p) ==
  /\ At(p, "tidy") /\ ptable = NoProc
  /\ chan' = [chan EXCEPT ![p] = NoLock]
  /\ GoTo(p, "sleep2")
  /\ UNCHANGED <<locked, pid, lk, ptable, state, arg, held, kills>>

\* Faulty: the lock is taken after a wakeup without the test (if, not while).
SleepReacquireOnce(p) ==
  /\ At(p, "sleep2") /\ lk[arg[p]] = NoProc
  /\ locked' = [locked EXCEPT ![arg[p]] = TRUE]
  /\ pid' = [pid EXCEPT ![arg[p]] = p]
  /\ held' = [held EXCEPT ![p] = @ \cup {arg[p]}]
  /\ arg' = [arg EXCEPT ![p] = NoLock]
  /\ GoTo(p, "run")
  /\ UNCHANGED <<lk, ptable, state, chan, kills>>

\* ... and reacquires lk.
SleepReacquire(p) ==
  /\ At(p, "sleep2") /\ lk[arg[p]] = NoProc
  /\ lk' = [lk EXCEPT ![arg[p]] = p]
  /\ GoTo(p, "while")
  /\ UNCHANGED <<locked, pid, ptable, state, chan, arg, held, kills>>

\* releasesleep(l): acquire(&lk->lk), clear locked and pid ...
ReleaseSleep(p, l) ==
  /\ At(p, "run") /\ l \in held[p] /\ lk[l] = NoProc
  /\ lk' = [lk EXCEPT ![l] = p]
  /\ locked' = [locked EXCEPT ![l] = FALSE]
  /\ pid' = [pid EXCEPT ![l] = NoProc]
  /\ held' = [held EXCEPT ![p] = @ \ {l}]
  /\ arg' = [arg EXCEPT ![p] = l]
  /\ GoTo(p, "wakeup")
  /\ UNCHANGED <<ptable, state, chan, kills>>

\* wakeup1(): every process asleep on the channel becomes RUNNABLE.
Wakeup1(c) ==
  state' = [q \in Proc |-> IF state[q] = "SLEEPING" /\ chan[q] = c
                             THEN "RUNNABLE" ELSE state[q]]

\* ... wakeup(lk) under ptable.lock, release(&lk->lk).
Wakeup(p) ==
  /\ At(p, "wakeup") /\ ptable = NoProc
  /\ Wakeup1(arg[p])
  /\ lk' = [lk EXCEPT ![arg[p]] = NoProc]
  /\ arg' = [arg EXCEPT ![p] = NoLock]
  /\ GoTo(p, "run")
  /\ UNCHANGED <<locked, pid, ptable, chan, held, kills>>

\* kill(): somebody wakes a sleeping process although its lock is taken.
Kill(p) ==
  /\ kills < MaxKills /\ ptable = NoProc /\ state[p] = "SLEEPING"
  /\ state' = [state EXCEPT ![p] = "RUNNABLE"]
  /\ kills' = kills + 1
  /\ UNCHANGED <<locked, pid, lk, ptable, chan, pc, arg, held>>

\* The steps of sleeplock.c and sleep() once they are called.
Step(p) ==
  \/ While(p) \/ SleepAcquire(p) \/ SleepRelease(p) \/ SleepSched(p)
  \/ SleepTidy(p) \/ SleepReacquire(p) \/ Wakeup(p)

Next ==
  \E p \in Proc :
    \/ Step(p)
    \/ \E l \in Lock : AcquireSleep(p, l) \/ ReleaseSleep(p, l)
    \/ Kill(p)

Spec == Init /\ [][Next]_vars

\* Processes run on, and whoever holds a sleep lock comes to releasesleep().
\* Only weak fairness: no spin lock is assumed to be fair.
FairSpec ==
  /\ Spec
  /\ \A p \in Proc : /\ WF_vars(Step(p))
                     /\ \A l \in Lock : WF_vars(ReleaseSleep(p, l))

-----------------------------------------------------------------------------
\* acquiresleep()/releasesleep(): two processes never have the same lock.
MutualExclusion ==
  \A p, q \in Proc : p # q => held[p] \cap held[q] = {}

\* holdingsleep() (locked && pid == mine) tells the truth to every caller that
\* can call it, so the panics of brelse(), bwrite() and iunlock() are not due
\* to the lock.
HoldingSleepExact ==
  \A p \in Proc, l \in Lock : l \in held[p] <=> locked[l] /\ pid[l] = p

\* sleep(): "Once we hold ptable.lock, we can be guaranteed that we won't miss
\* any wakeup": whoever sleeps on a free lock has a wakeup still coming.
NoLostWakeup ==
  \A p \in Proc :
    state[p] = "SLEEPING" =>
      \/ locked[arg[p]]
      \/ \E q \in Proc : pc[q] = "wakeup" /\ arg[q] = arg[p]

\* Every process asleep in acquiresleep() is woken in the end, if it waits for a
\* lock under which no other is acquired.  The holder of an outer lock may lose
\* the spin lock of the inner one for ever.
SleeperWoken ==
  \A p \in Proc, l \in Lock :
    (\A m \in Lock : <<l, m>> \notin MayNest) =>
      (state[p] = "SLEEPING" /\ chan[p] = l ~> state[p] = "RUNNABLE")

M == INSTANCE Mutex WITH Agent <- Proc, NoAgent <- NoProc,
       owner <- [l \in Lock |-> IF locked[l] THEN pid[l] ELSE NoProc]

\* locked and pid of sleeplock.c implement an atomic mutex.
ImplementsMutex == M!MutexSpec
=============================================================================
