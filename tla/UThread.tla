------------------------------- MODULE UThread -------------------------------
(***************************************************************************)
(* User-level threads (xv6/uthreadlib.c, xv6/uthread_switch.S).  Slot 0 is *)
(* main(), which goes into thread_schedule() when it has created the first *)
(* threads; the others run until they yield or exit.                       *)
(***************************************************************************)
EXTENDS Integers

CONSTANTS MAX_THREAD,  \* slots of all_thread
          MaxTurns,    \* bound on the turns of a thread between yields
          MaxCreated   \* bound on the threads created; uthread.c takes it from argv

ASSUME ThreadAssumption ==
  MAX_THREAD \in Nat \ {0} /\ MaxTurns \in Nat /\ MaxCreated \in Nat

VARIABLES tstate,   \* FREE, RUNNING or RUNNABLE
          context,  \* what the saved sp of a slot leads to: nothing, the start
                    \* of a thread, or the turn in which it gave up the CPU
          current,  \* current_thread
          turn,     \* the turn in which the thread on the CPU really is
          over,     \* the process called exit(): no runnable threads
          made,     \* calls of thread_create()
          overrun   \* one of them found no free slot

threadVars == <<tstate, context, current, turn, over, made, overrun>>

SlotId == 0..MAX_THREAD-1
None == -1

\* thread_init().
ThreadInit ==
  /\ tstate = [t \in SlotId |-> IF t = 0 THEN "RUNNING" ELSE "FREE"]
  /\ context = [t \in SlotId |-> None]
  /\ current = 0 /\ turn = [t \in SlotId |-> 0] /\ over = FALSE
  /\ made = 0 /\ overrun = FALSE

Least(S) == CHOOSE x \in S : \A y \in S : x <= y

\* thread_switch(): the registers of the current thread go to its stack, and
\* those of the next one come back from its own.
thread_switch(ts, tn, next) ==
  /\ tstate' = [ts EXCEPT ![next] = "RUNNING"]
  /\ context' = [context EXCEPT ![current] = tn[current], ![next] = None]
  /\ turn' = [tn EXCEPT ![next] = context[next]]
  /\ current' = next /\ UNCHANGED <<over, made, overrun>>

\* Faulty: a thread that is alone is not run again.
thread_scheduleAlone(ts, tn) ==
  LET others == {t \in SlotId : ts[t] = "RUNNABLE" /\ t # current}
  IN  IF others # {} THEN thread_switch(ts, tn, Least(others))
      ELSE over' = TRUE /\ tstate' = ts /\ turn' = tn /\ UNCHANGED <<context, current, made, overrun>>

\* thread_schedule(), with the states ts: the first other runnable thread, the
\* current one if it is the only one, or the end.
thread_schedule(ts, tn) ==
  LET others == {t \in SlotId : ts[t] = "RUNNABLE" /\ t # current}
  IN  IF others # {} THEN thread_switch(ts, tn, Least(others))
      ELSE /\ over' = (ts[current] # "RUNNABLE")
           /\ tstate' = ts /\ turn' = tn /\ UNCHANGED <<context, current, made, overrun>>

\* thread_create() takes the first free slot.  It does not test whether there
\* is one, and writes the thread behind all_thread: what the process does from
\* there on is undefined, and no step follows.
Free == {t \in SlotId : tstate[t] = "FREE"}
thread_create ==
  /\ ~over /\ ~overrun /\ made < MaxCreated
  /\ made' = made + 1 /\ overrun' = (Free = {})
  /\ IF Free = {} THEN UNCHANGED <<tstate, context, turn>>
     ELSE /\ tstate' = [tstate EXCEPT ![Least(Free)] = "RUNNABLE"]
          /\ context' = [context EXCEPT ![Least(Free)] = 0]
          /\ turn' = [turn EXCEPT ![Least(Free)] = 0]
  /\ UNCHANGED <<current, over>>

\* main() stops being scheduled: it is RUNNING for good.
Schedule == ~over /\ ~overrun /\ current = 0 /\ thread_schedule(tstate, turn)

thread_yield ==
  /\ ~over /\ ~overrun /\ current # 0 /\ turn[current] < MaxTurns
  /\ thread_schedule([tstate EXCEPT ![current] = "RUNNABLE"], [turn EXCEPT ![current] = @ + 1])

thread_exit ==
  /\ ~over /\ ~overrun /\ current # 0
  /\ thread_schedule([tstate EXCEPT ![current] = "FREE"], turn)

ThreadNext == thread_create \/ Schedule \/ thread_yield \/ thread_exit

ThreadSpec == ThreadInit /\ [][ThreadNext]_threadVars

-----------------------------------------------------------------------------
\* The table and the contexts: see ThreadsSound.
ContextsOK ==
  /\ \A t \in SlotId \ {0} : (tstate[t] = "RUNNABLE" /\ t # current) => context[t] = turn[t]
  /\ \A t \in SlotId \ {0} : tstate[t] = "RUNNING" => t = current
  /\ tstate[0] = "RUNNING"
  /\ over => \A t \in SlotId : tstate[t] # "RUNNABLE"

\* As long as no thread was created without a free slot: a thread that waits for
\* the CPU can be resumed where it gave it up, main() is never resumed, and the
\* process ends only when no thread is left to run, whatever the order of
\* creations, yields and exits, and slots reused.  The first MAX_THREAD - 1
\* creations find a slot (uthreadlib.c:77-84 does not test it).
ThreadsSound == ContextsOK /\ (overrun => made >= MAX_THREAD)
=============================================================================
