------------------------------- MODULE NamedSem -------------------------------
(***************************************************************************)
(* The programs of ejemplossemaforos/ that share a named semaphore:        *)
(* mutex.c and mutexnowait.c pass through a critical zone, up.c and down.c *)
(* raise and lower it, semgetval.c only creates it, semdestroy.c removes   *)
(* the name while others may still have the semaphore open.                *)
(***************************************************************************)
EXTENDS Integers, FiniteSets

CONSTANTS User,         \* terminals, each runs one program after another
          MaxSemaphores,\* bound on the semaphores that come to exist
          MaxUps        \* bound on the runs of up.c

ASSUME NamedAssumption ==
  IsFiniteSet(User) /\ MaxSemaphores \in Nat /\ MaxUps \in Nat

VARIABLES name,   \* the semaphore that has the name, 0 for none
          value,  \* the semaphores: their values, -1 before they are created
          running,\* the program of each user, its step and its semaphore
          ups,    \* history: the posts of up.c
          lost    \* history: the tokens that down.c or a killed program took

semVars == <<name, value, running, ups, lost>>

Object == 1..MaxSemaphores
NoProgram == [name |-> "none", pc |-> "none", sem |-> 0]

NamedInit ==
  /\ name = 0 /\ value = [o \in Object |-> -1]
  /\ running = [u \in User |-> NoProgram]
  /\ ups = [o \in Object |-> 0] /\ lost = [o \in Object |-> 0]

New == {o \in Object : value[o] = -1}
In(u, p, s) == running[u].name \in p /\ running[u].pc = s
Go(u, s) == running' = [running EXCEPT ![u] = [name |-> @.name, pc |-> s, sem |-> @.sem]]
Leave(u) == running' = [running EXCEPT ![u] = NoProgram]
AddTo(u, n) == value' = [value EXCEPT ![running[u].sem] = @ + n]

-----------------------------------------------------------------------------
\* sem_open() with O_CREAT, value 1.
Open(u, p) ==
  /\ running[u] = NoProgram
  /\ p = "up" => ups # [o \in Object |-> MaxUps]
  /\ IF name # 0 THEN UNCHANGED <<name, value>>
     ELSE \E o \in New : /\ \A q \in New : o <= q
                         /\ name' = o /\ value' = [value EXCEPT ![o] = 1]
  /\ running' = [running EXCEPT ![u] = IF p = "semgetval" THEN NoProgram
                                 ELSE [name |-> p, pc |-> "opened", sem |-> name']]
  /\ UNCHANGED <<ups, lost>>

\* sem_wait() of mutex.c; sem_trywait() of mutexnowait.c, and sem_timedwait()
\* after it.
Enter(u) ==
  /\ \/ In(u, {"mutex", "mutexnowait"}, "opened")
     \/ In(u, {"mutexnowait"}, "timedwait")
  /\ value[running[u].sem] > 0 /\ AddTo(u, -1) /\ Go(u, "zone")
  /\ UNCHANGED <<name, ups, lost>>

Busy(u) ==
  /\ In(u, {"mutexnowait"}, "opened") /\ value[running[u].sem] = 0
  /\ Go(u, "timedwait") /\ UNCHANGED <<name, value, ups, lost>>

\* Faulty: the program raises the semaphore although it did not get it.
TimedOutPosts(u) ==
  /\ In(u, {"mutexnowait"}, "timedwait") /\ AddTo(u, 1) /\ Leave(u)
  /\ UNCHANGED <<name, ups, lost>>

\* 20 seconds have passed: it ends without entering the zone.
TimedOut(u) ==
  /\ In(u, {"mutexnowait"}, "timedwait") /\ Leave(u)
  /\ UNCHANGED <<name, value, ups, lost>>

Exit(u) ==
  /\ In(u, {"mutex", "mutexnowait"}, "zone") /\ AddTo(u, 1) /\ Leave(u)
  /\ UNCHANGED <<name, ups, lost>>

RunUp(u) ==
  /\ In(u, {"up"}, "opened") /\ ups[running[u].sem] < MaxUps
  /\ AddTo(u, 1) /\ ups' = [ups EXCEPT ![running[u].sem] = @ + 1] /\ Leave(u)
  /\ UNCHANGED <<name, lost>>

RunDown(u) ==
  /\ In(u, {"down"}, "opened") /\ value[running[u].sem] > 0
  /\ AddTo(u, -1) /\ lost' = [lost EXCEPT ![running[u].sem] = @ + 1] /\ Leave(u)
  /\ UNCHANGED <<name, ups>>

\* sem_open() without O_CREAT and sem_unlink() of whatever then has the name.
FindToDestroy(u) ==
  /\ running[u] = NoProgram /\ name # 0
  /\ running' = [running EXCEPT ![u] = [name |-> "semdestroy", pc |-> "opened", sem |-> name]]
  /\ UNCHANGED <<name, value, ups, lost>>

Unlink(u) ==
  /\ In(u, {"semdestroy"}, "opened") /\ New # {}
  /\ name' = 0 /\ Leave(u) /\ UNCHANGED <<value, ups, lost>>

\* The program is killed: a semaphore that it holds stays taken.
KillUser(u) ==
  /\ running[u] # NoProgram /\ Leave(u)
  /\ lost' = IF running[u].pc = "zone" THEN [lost EXCEPT ![running[u].sem] = @ + 1] ELSE lost
  /\ UNCHANGED <<name, value, ups>>

NamedNext == \E u \in User :
  \/ \E p \in {"mutex", "mutexnowait", "up", "down", "semgetval"} : Open(u, p)
  \/ Enter(u) \/ Busy(u) \/ TimedOut(u) \/ Exit(u)
  \/ RunUp(u) \/ RunDown(u) \/ FindToDestroy(u) \/ Unlink(u) \/ KillUser(u)

NamedSpec == NamedInit /\ [][NamedNext]_semVars

-----------------------------------------------------------------------------
InZone(o) == {u \in User : running[u].pc = "zone" /\ running[u].sem = o}

\* Of the users that opened the same semaphore at most one is in the zone as long
\* as nobody ran up.c, whatever times out or is killed; and a semaphore at 0 has
\* somebody in the zone, or somebody who took it for good.  Users on both sides
\* of a semdestroy.c have two semaphores and do not exclude each other.
ZoneGuarded ==
  \A o \in Object : value[o] # -1 =>
    /\ ups[o] = 0 => Cardinality(InZone(o)) <= 1
    /\ value[o] = 0 => InZone(o) # {} \/ lost[o] > 0
    /\ value[o] + Cardinality(InZone(o)) + lost[o] = 1 + ups[o]
=============================================================================
