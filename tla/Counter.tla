------------------------------- MODULE Counter -------------------------------
(***************************************************************************)
(* Two threads that add to a global variable: lab-04/glob.c and            *)
(* ejemplossemaforos/oops.c without exclusion, lab-04/sched-threads.c also *)
(* with the variable as an index at which they write, and oops_mutex.c     *)
(* with a named semaphore that is never removed.  The loads and stores are *)
(* those that the programs' statements ask for.                            *)
(***************************************************************************)
EXTENDS Integers

CONSTANTS VUELTAS,     \* the argument: rounds of a thread
          MaxRestarts  \* bound on the runs that are killed

ASSUME CounterAssumption == VUELTAS \in Nat \ {0} /\ MaxRestarts \in Nat

VARIABLES program,
          a_global,        \* or glob, or pos
          mutex,           \* mutex: -1 as long as mutex_oops does not exist
          suma,            \* each thread: the step, the local b, the rounds left
          spoiled,         \* a killed run left the semaphore at 0
          restarts

counterVars == <<program, a_global, mutex, suma, spoiled, restarts>>

Thread == 1..2
NoThread == [t \in Thread |-> [pc |-> "none", b |-> 0, left |-> VUELTAS]]

CounterInit ==
  /\ program \in {"glob", "sched", "oops", "oops_mutex"}
  /\ a_global = 0 /\ mutex = -1 /\ suma = NoThread /\ spoiled = FALSE /\ restarts = 0

First == IF program = "oops_mutex" THEN "wait" ELSE IF program = "sched" THEN "write" ELSE "load"
Last == IF program = "oops_mutex" THEN "post" ELSE "store"
Goto(t, s, l) == suma' = [suma EXCEPT ![t] = [pc |-> s, b |-> l, left |-> @.left]]
EndRound(t) == suma' = [suma EXCEPT ![t] =
  [pc |-> IF @.left = 1 THEN "exit" ELSE First, b |-> 0, left |-> @.left - 1]]

-----------------------------------------------------------------------------
\* main(): sem_open() in oops_mutex.c, then the two threads.
main ==
  /\ suma = NoThread
  /\ mutex' = IF program = "oops_mutex" /\ mutex = -1 THEN 1 ELSE mutex
  /\ suma' = [t \in Thread |-> [pc |-> First, b |-> 0, left |-> VUELTAS]]
  /\ UNCHANGED <<program, a_global, spoiled, restarts>>

\* sem_wait(), sem_post().
mutex_wait(t) ==
  /\ suma[t].pc = "wait" /\ mutex > 0
  /\ mutex' = mutex - 1 /\ Goto(t, "load", 0)
  /\ UNCHANGED <<program, a_global, spoiled, restarts>>

\* buf[pos] = id, again and again, up to the last time.
write(t) ==
  /\ suma[t].pc = "write" /\ Goto(t, "load", 0)
  /\ UNCHANGED <<program, a_global, mutex, spoiled, restarts>>

load(t) ==
  /\ suma[t].pc = "load" /\ Goto(t, "store", a_global)
  /\ UNCHANGED <<program, a_global, mutex, spoiled, restarts>>

\* Faulty: the semaphore is raised before the new value is stored.
storeLate(t) ==
  /\ suma[t].pc \in {"store", "post"}
  /\ IF suma[t].pc = "store" /\ Last = "post"
     THEN Goto(t, "post", suma[t].b) /\ mutex' = mutex + 1 /\ UNCHANGED a_global
     ELSE a_global' = suma[t].b + 1 /\ EndRound(t) /\ UNCHANGED mutex
  /\ UNCHANGED <<program, spoiled, restarts>>

store(t) ==
  /\ suma[t].pc = "store"
  /\ a_global' = suma[t].b + 1
  /\ IF Last = "store" THEN EndRound(t) ELSE Goto(t, "post", 0)
  /\ UNCHANGED <<program, mutex, spoiled, restarts>>

mutex_post(t) ==
  /\ suma[t].pc = "post" /\ mutex' = mutex + 1 /\ EndRound(t)
  /\ UNCHANGED <<program, a_global, spoiled, restarts>>

\* The run is killed, or ends, and the program is started again.
Restart ==
  /\ restarts < MaxRestarts /\ suma # NoThread
  /\ restarts' = restarts + 1 /\ suma' = NoThread /\ a_global' = 0
  /\ spoiled' = (mutex = 0)
  /\ UNCHANGED <<program, mutex>>

CounterNext ==
  \/ main \/ Restart
  \/ \E t \in Thread : mutex_wait(t) \/ write(t) \/ load(t) \/ store(t) \/ mutex_post(t)

CounterSpec == CounterInit /\ [][CounterNext]_counterVars

-----------------------------------------------------------------------------
\* What the programs print: oops_mutex.c both threads' rounds, glob.c and oops.c
\* anything from 2 up to that, never less.  oops_mutex.c gets there unless a run
\* before was killed between sem_wait() and sem_post().  And sched-threads.c never
\* writes behind its buffer of hilos * items, although pos can lose updates and go back.
CountsRounds ==
  /\ (\A t \in Thread : suma[t].pc = "exit") =>
       IF program = "oops_mutex" THEN a_global = 2 * VUELTAS
       ELSE a_global \in (IF VUELTAS > 1 THEN 2 ELSE 1)..2*VUELTAS
  /\ (\A t \in Thread : suma[t].pc \in {"wait", "exit"}) /\ mutex = 0 => spoiled
  /\ \A t \in Thread : suma[t].pc = "write" => a_global \in 0 .. 2 * VUELTAS - 1
=============================================================================
