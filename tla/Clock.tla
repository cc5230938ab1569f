-------------------------------- MODULE Clock --------------------------------
(***************************************************************************)
(* The tick counter of xv6/trap.c, and sys_sleep() of xv6/sysproc.c, which *)
(* waits for it.  ticks is a uint of WORD values and wraps around.         *)
(***************************************************************************)
EXTENDS Integers

CONSTANTS Sleeper,  \* processes
          WORD,     \* range of uint
          Naps,     \* arguments of sleep()
          LAG       \* ticks that pass at most before a woken process runs

ASSUME ClockAssumption ==
  /\ WORD \in Nat \ {0} /\ LAG \in Nat /\ Naps \subseteq Int
  /\ \A n \in Naps : (n % WORD) + LAG < WORD

VARIABLES ticks,   \* the tick counter
          nap,     \* each process's sleep(): st, n, ticks0, and the ticks that
                   \* passed since it began and since the process was woken
          killedNap

clockVars == <<ticks, nap, killedNap>>

Add(a, b) == (a + b) % WORD
Nap(st, n, ticks0, passed, late) ==
  [st |-> st, n |-> n, ticks0 |-> ticks0, passed |-> passed, late |-> late]
Becomes(k, st, passed, late) == Nap(st, k.n, k.ticks0, passed, late)
Up == Nap("up", 0, 0, 0, 0)

ClockInit == ticks = 0 /\ nap = [p \in Sleeper |-> Up] /\ killedNap = {}

\* Faulty: the deadline is computed and wraps around.
OverdueWraps(k) == ticks >= Add(k.ticks0, k.n)

\* The condition of sys_sleep()'s loop, ticks - ticks0 < n: n becomes a uint.
Overdue(k) == (ticks - k.ticks0) % WORD >= k.n % WORD

\* sys_sleep() up to its first sleep(), or its return.
sys_sleep(p, n) ==
  /\ nap[p].st = "up" /\ p \notin killedNap
  /\ LET k == Nap("asleep", n, ticks, 0, 0)
     IN  nap' = [nap EXCEPT ![p] = IF Overdue(k) THEN Becomes(k, "returned", 0, 0) ELSE k]
  /\ UNCHANGED <<ticks, killedNap>>

\* A tick wakes who sleeps.
Tick(k) ==
  IF k.st \in {"asleep", "woken"}
    THEN Becomes(k, "woken", k.passed + 1, IF k.st = "woken" THEN k.late + 1 ELSE 0)
    ELSE k

\* The timer interrupt of CPU 0: ticks++ and wakeup(&ticks).
Timer ==
  /\ \A p \in Sleeper : nap[p].late < LAG
  /\ ticks' = Add(ticks, 1)
  /\ nap' = [p \in Sleeper |-> Tick(nap[p])]
  /\ UNCHANGED killedNap

\* A woken process looks at the clock again.
Wake(p) ==
  /\ nap[p].st = "woken"
  /\ nap' = [nap EXCEPT ![p] =
       CASE Overdue(@)                        -> Becomes(@, "returned", @.passed, 0)
         [] ~Overdue(@) /\ p \in killedNap    -> Up
         [] ~Overdue(@) /\ p \notin killedNap -> Becomes(@, "asleep", @.passed, 0)]
  /\ UNCHANGED <<ticks, killedNap>>

\* The process has the result of sleep() and goes on.
Resume(p) ==
  /\ nap[p].st = "returned"
  /\ nap' = [nap EXCEPT ![p] = Up]
  /\ UNCHANGED <<ticks, killedNap>>

\* kill() (proc.c) wakes a process that sleeps, unless it came between the
\* process's test of killed and its sleep(): then the next tick does.
KillNap(p) ==
  /\ nap[p].st \in {"asleep", "woken"} /\ p \notin killedNap
  /\ killedNap' = killedNap \cup {p}
  /\ \/ nap' = [nap EXCEPT ![p] = Becomes(@, "woken", @.passed, @.late)]
     \/ nap[p].st = "asleep" /\ UNCHANGED nap
  /\ UNCHANGED ticks

ClockNext ==
  \/ Timer
  \/ \E p \in Sleeper : (\E n \in Naps : sys_sleep(p, n)) \/ Wake(p) \/ Resume(p) \/ KillNap(p)

ClockSpec == ClockInit /\ [][ClockNext]_clockVars

-----------------------------------------------------------------------------
\* sleep(n) never returns early, and at most LAG ticks late, wherever the tick
\* counter wraps around; a negative n is a uint, and sleeps that much longer (an
\* n of -LAG or more can miss its tick, and is left out of Naps).
SleepExact ==
  \A p \in Sleeper :
    /\ nap[p].st = "returned" => nap[p].passed \in (nap[p].n % WORD)..(nap[p].n % WORD) + LAG
    /\ nap[p].st # "up" => nap[p].passed <= (nap[p].n % WORD) + LAG
=============================================================================
