------------------------------ MODULE ForkPrio ------------------------------
(***************************************************************************)
(* lab-03/forkprio.c: a parent forks children that are busy until they get *)
(* a SIGTERM, which it sends after some seconds or when it gets a SIGINT.  *)
(* A ^C of the terminal is a SIGINT for every process of the program.      *)
(***************************************************************************)
EXTENDS Integers

CONSTANTS CHILD_MAX, \* entries of hijos
          MaxHijos,  \* bound on the first argument, which the code does not test
          MaxInts    \* bound on the ^C typed

ASSUME PrioAssumption ==
  CHILD_MAX \in Nat /\ MaxHijos \in Nat /\ MaxHijos < CHILD_MAX /\ MaxInts \in Nat

VARIABLES numHijos, numSeg, \* the arguments; numSeg: its sign
          index,    \* i, the loop variable of main()
          parent,   \* where main() is, or how it ended
          child,    \* each child: the handlers it has set up, or "none", "ended"
          pending,  \* who has yet to take which signal; process 0 is the parent
          ints

prioVars == <<numHijos, numSeg, index, parent, child, pending, ints>>

Child == 1..MaxHijos
Alive == {c \in Child : child[c] \notin {"none", "ended"}}
Ended == {"done", "killAll", "fork_failed", "SIGINT"}

PrioInit ==
  /\ numHijos \in 1..MaxHijos /\ numSeg \in {-1, 0, 1}
  /\ index = 1 /\ parent = "fork"
  /\ child = [c \in Child |-> "none"] /\ pending = {} /\ ints = 0

\* main(): fork() the children, or fail, ...
Fork ==
  /\ parent = "fork" /\ index <= numHijos
  /\ \/ child' = [child EXCEPT ![index] = "born"] /\ index' = index + 1 /\ UNCHANGED parent
     \/ parent' = "fork_failed" /\ UNCHANGED <<child, index>>
  /\ UNCHANGED <<numHijos, numSeg, pending, ints>>

\* ... set up killAll() for SIGINT, and sleep, pause or leave ...
Handle ==
  /\ parent = "fork" /\ index > numHijos
  /\ parent' = IF numSeg = 1 THEN "sleep" ELSE IF numSeg = 0 THEN "pause" ELSE "done"
  /\ index' = 1
  /\ UNCHANGED <<numHijos, numSeg, child, pending, ints>>

\* ... and, after the sleep, a SIGTERM for each child, and exit.
Terminate ==
  /\ parent = "sleep"
  /\ IF index > numHijos THEN parent' = "done" /\ UNCHANGED <<index, pending>>
     ELSE index' = index + 1 /\ pending' = pending \cup {<<index, "SIGTERM">>} /\ UNCHANGED parent
  /\ UNCHANGED <<numHijos, numSeg, child, ints>>

\* A child sets up childhandler() for SIGTERM, then blockKill() for SIGINT.
Setup(c) ==
  /\ child[c] \in {"born", "SIGTERM"}
  /\ child' = [child EXCEPT ![c] = IF @ = "born" THEN "SIGTERM" ELSE "busywork"]
  /\ UNCHANGED <<numHijos, numSeg, index, parent, pending, ints>>

Interrupt ==
  /\ ints < MaxInts /\ ints' = ints + 1
  /\ pending' = pending \cup {<<p, "SIGINT">> : p \in Alive \cup {0}}
  /\ UNCHANGED <<numHijos, numSeg, index, parent, child>>

\* Faulty: the loop of killAll() reaches hijos[0..numHijos-1] and no group.
killAllLoop == {<<c, "SIGTERM">> : c \in 1..numHijos-1}

\* killAll(): its first kill() is for hijos[0], which is 0, the whole group; it
\* ends the parent there or in exit().
killAll == {<<c, "SIGTERM">> : c \in Alive}

TakeParent ==
  /\ <<0, "SIGINT">> \in pending /\ parent \notin Ended
  /\ IF parent = "fork"
       THEN parent' = "SIGINT" /\ pending' = pending \ {<<0, "SIGINT">>}
       ELSE parent' = "killAll" /\ pending' = (pending \ {<<0, "SIGINT">>}) \cup killAll
  /\ UNCHANGED <<numHijos, numSeg, index, child, ints>>

\* A child ends with a SIGTERM, and with a SIGINT until it has set up blockKill();
\* sa_flags is not initialised and may drop that handler after its first use.
TakeChild(c, sig) ==
  /\ <<c, sig>> \in pending /\ pending' = pending \ {<<c, sig>>}
  /\ \E h \in {"busywork", "reset"} :
       child' = [child EXCEPT ![c] = IF sig = "SIGINT" /\ @ = "busywork" THEN h ELSE "ended"]
  /\ UNCHANGED <<numHijos, numSeg, index, parent, ints>>

PrioNext ==
  \/ Fork \/ Handle \/ Terminate \/ Interrupt \/ TakeParent
  \/ \E c \in Child : Setup(c) \/ \E sig \in {"SIGINT", "SIGTERM"} : TakeChild(c, sig)

PrioSpec == PrioInit /\ [][PrioNext]_prioVars
-----------------------------------------------------------------------------
\* The parent terminates all its children, as lab-03/README.md asks: whenever it
\* has ended after it set up its handler, every child has ended or is about to,
\* whatever ^C came in between.  (Not after a failed fork(), a ^C before that, or
\* negative seconds.)
NoneLeftBehind ==
  parent = "killAll" \/ (parent = "done" /\ numSeg = 1) =>
    \A c \in Alive : <<c, "SIGTERM">> \in pending
=============================================================================
