----------------------------- MODULE LabProofs ------------------------------
(***************************************************************************)
(* Proofs about the lab programs.  For any number of rounds: CountsRounds  *)
(* of Counter.  For any number of children: NoneLeftBehind of ForkPrio.    *)
(* For any number of users, semaphores and posts: ZoneGuarded of NamedSem. *)
(* For any number of terminals, words and killed commands: StackSound of   *)
(* WordStack.                                                              *)
(***************************************************************************)
EXTENDS Counter, ForkPrio, NamedSem, WordStack, FiniteSetTheorems, TLAPS

\* The rounds of a thread of the counters.
Round == [pc : {"none", "wait", "write", "load", "store", "post", "exit"}, b : Nat,
          left : 0..VUELTAS]

\* The rounds whose new value a thread has stored.
Stored(t) == VUELTAS - suma[t].left + (IF suma[t].pc = "post" THEN 1 ELSE 0)
\* The rounds of both, and a thread between sem_wait() and sem_post().
Total == Stored(1) + Stored(2)
Inside(t) == suma[t].pc \in {"load", "store", "post"}

\* The position of a thread.
PlaceOK(t) ==
  /\ suma[t] \in Round
  /\ suma[t].pc = "none" => suma[1].pc = "none" /\ suma[2].pc = "none" /\ suma[t].left = VUELTAS
  /\ suma[t].pc = "exit" => suma[t].left = 0
  /\ suma[t].pc \notin {"none", "exit"} => suma[t].left >= 1
  /\ suma[t].pc \in {"wait", "post"} => program = "oops_mutex"
  /\ suma[t].pc = "write" => program = "sched"

\* The variable is never ahead of the rounds, and never at 0 after the first; nor is
\* the copy of a thread, from its second round on.
SumOK ==
  /\ a_global <= Total
  /\ Total >= 1 => a_global >= 1
  /\ \A t \in Thread : suma[t].pc = "store" =>
       suma[t].b <= Total /\ (Stored(t) >= 1 => suma[t].b >= 1)
  /\ VUELTAS > 1 /\ suma[1].pc = "exit" /\ suma[2].pc = "exit" => a_global >= 2

\* oops_mutex.c: one thread at a time, unless an earlier run took the semaphore along.
MutexOK ==
  /\ program # "oops_mutex" => mutex = -1 /\ ~spoiled
  /\ program = "oops_mutex" =>
       /\ a_global = Total
       /\ \A t \in Thread : suma[t].pc = "store" => suma[t].b = a_global
       /\ ~(Inside(1) /\ Inside(2))
       /\ (\E t \in Thread : Inside(t)) => mutex = 0 /\ ~spoiled
       /\ mutex = 0 => spoiled \/ \E t \in Thread : Inside(t)
       /\ spoiled => mutex = 0
       /\ suma[1].pc # "none" => mutex \in {0, 1}

\* The inductive invariant of the counters.
CounterOK ==
  /\ program \in {"glob", "sched", "oops", "oops_mutex"}
  /\ a_global \in Nat /\ mutex \in {-1, 0, 1} /\ spoiled \in BOOLEAN
  /\ suma = [t \in Thread |-> suma[t]]
  /\ \A t \in Thread : PlaceOK(t)
  /\ SumOK /\ MutexOK

-----------------------------------------------------------------------------
\* There are two threads.
LEMMA Two == Thread = {1, 2}  BY DEF Thread

\* A step of one thread: what it leaves alone, and what it stores.
Moves(t, s, l, n) ==
  /\ suma' = [u \in Thread |-> suma'[u]] /\ suma'[t] \in Round
  /\ suma'[t].pc = s /\ suma'[t].b = l /\ suma'[t].left = n
  /\ \A u \in Thread : u # t => suma'[u] = suma[u] /\ Stored(u)' = Stored(u)
  /\ Stored(1) \in Int /\ Stored(2) \in Int /\ Total \in Int /\ Total' \in Int
  /\ Stored(t)' = VUELTAS - n + (IF s = "post" THEN 1 ELSE 0)
  /\ Total' - Total = Stored(t)' - Stored(t)

\* Every assignment to a thread's position is such a step.
LEMMA RoundStep ==
  ASSUME CounterOK, NEW t \in Thread, NEW s \in {"wait", "write", "load", "store", "post", "exit"},
         NEW l \in Nat, NEW n \in 0..VUELTAS,
         suma' = [suma EXCEPT ![t] = [pc |-> s, b |-> l, left |-> n]]
  PROVE  Moves(t, s, l, n)
  <1>1. /\ suma' = [u \in Thread |-> suma'[u]] /\ suma'[t] = [pc |-> s, b |-> l, left |-> n]
        /\ \A u \in Thread : u # t => suma'[u] = suma[u]
    BY DEF CounterOK
  <1>2. suma'[t] \in Round /\ suma'[t].pc = s /\ suma'[t].b = l /\ suma'[t].left = n
    BY <1>1 DEF Round
  <1>3. \A u \in Thread : suma[u].left \in 0..VUELTAS /\ suma'[u].left \in 0..VUELTAS
    BY <1>1, <1>2 DEF CounterOK, PlaceOK, Round
  <1>4. \A u \in Thread : Stored(u) \in Int /\ Stored(u)' \in Int
    BY <1>3, CounterAssumption DEF Stored
  <1>5. \A u \in Thread : u # t => Stored(u)' = Stored(u)  BY <1>1 DEF Stored
  <1>6. /\ Total' - Total = Stored(t)' - Stored(t) /\ Total \in Int /\ Total' \in Int
        /\ Stored(1) \in Int /\ Stored(2) \in Int
    BY <1>4, <1>5, Two DEF Total
  <1>7. Stored(t)' = VUELTAS - n + (IF s = "post" THEN 1 ELSE 0)  BY <1>2 DEF Stored
  <1> QED  BY <1>1, <1>2, <1>5, <1>6, <1>7 DEF Moves

\* The threads' positions after a step of one of them.
LEMMA PlaceStep ==
  ASSUME CounterOK, NEW t \in Thread, NEW s \in {"wait", "write", "load", "store", "post", "exit"},
         NEW l \in Nat, NEW n \in 0..VUELTAS, suma[t].pc # "none", program' = program,
         suma' = [suma EXCEPT ![t] = [pc |-> s, b |-> l, left |-> n]],
         s = "exit" => n = 0, s # "exit" => n >= 1,
         s \in {"wait", "post"} => program = "oops_mutex", s = "write" => program = "sched"
  PROVE  \A u \in Thread : PlaceOK(u)'
  <1>0. Moves(t, s, l, n)  BY RoundStep, Zenon
  <1>1. /\ suma'[t].pc = s /\ suma'[t].left = n /\ suma'[t] \in Round
        /\ \A u \in Thread : u # t => suma'[u] = suma[u]
    BY <1>0 DEF Moves
  <1>2. PlaceOK(t)'  BY <1>1 DEF PlaceOK
  <1>3. \A u \in Thread : suma[u].pc # "none"  BY Two DEF CounterOK, PlaceOK
  <1>4. \A u \in Thread : u # t => PlaceOK(u)'  BY <1>1, <1>3 DEF CounterOK, PlaceOK
  <1> QED  BY <1>2, <1>4

\* What is known of a thread at work.
LEMMA PlaceFacts ==
  ASSUME CounterOK, NEW t \in Thread, suma[t].pc \notin {"none", "exit"}
  PROVE  /\ suma[t].b \in Nat /\ suma[t].left \in 0..VUELTAS /\ suma[t].left >= 1
         /\ VUELTAS \in Nat /\ a_global \in Nat
         /\ \A u \in Thread : suma[u].pc # "none"
         /\ Stored(t) = VUELTAS - suma[t].left + (IF suma[t].pc = "post" THEN 1 ELSE 0)
  <1>1. PlaceOK(t) /\ suma[t] \in Round  BY DEF CounterOK, PlaceOK
  <1>2. \A u \in Thread : suma[u].pc # "none"  BY Two DEF CounterOK, PlaceOK
  <1> QED  BY <1>1, <1>2, CounterAssumption DEF CounterOK, PlaceOK, Round, Stored

\* sem_wait() lets one thread in.
LEMMA WaitStep ==
  ASSUME CounterOK, NEW t \in Thread, mutex_wait(t)
  PROVE  CounterOK'
  <1>0. PICK n : n = suma[t].left  OBVIOUS
  <1>1. /\ suma[t].pc = "wait" /\ mutex > 0 /\ mutex' = mutex - 1
        /\ suma' = [suma EXCEPT ![t] = [pc |-> "load", b |-> 0, left |-> n]]
        /\ UNCHANGED <<program, a_global, spoiled>>
    BY <1>0 DEF mutex_wait, Goto
  <1>2. /\ n \in 0..VUELTAS /\ n >= 1 /\ 0 \in Nat /\ program = "oops_mutex"
        /\ Stored(t) = VUELTAS - n
    BY <1>0, <1>1, PlaceFacts DEF CounterOK, PlaceOK
  <1>3. Moves(t, "load", 0, n)  BY <1>1, <1>2, RoundStep, Zenon
  <1>4. \A u \in Thread : PlaceOK(u)'  BY <1>1, <1>2, PlaceStep, Zenon
  <1>5. Stored(t)' = Stored(t) /\ Total' = Total  BY <1>2, <1>3, CounterAssumption DEF Moves
  <1>6. SumOK'  BY <1>1, <1>3, <1>5, Two DEF CounterOK, SumOK, Moves
  <1>7. mutex = 1 /\ mutex' = 0 /\ ~spoiled /\ \A u \in Thread : ~Inside(u)
    BY <1>1, <1>2 DEF CounterOK, MutexOK
  <1>8. Inside(t)' /\ \A u \in Thread : u # t => ~Inside(u)'  BY <1>3, <1>7 DEF Inside, Moves
  <1>9. MutexOK'  BY <1>1, <1>2, <1>3, <1>5, <1>7, <1>8, Two DEF CounterOK, MutexOK, Moves
  <1> QED  BY <1>1, <1>3, <1>4, <1>6, <1>7, <1>9 DEF CounterOK, Moves

\* A write at pos changes nothing of it.
LEMMA WriteStep ==
  ASSUME CounterOK, NEW t \in Thread, write(t)
  PROVE  CounterOK'
  <1>0. PICK n : n = suma[t].left  OBVIOUS
  <1>1. /\ suma[t].pc = "write"
        /\ suma' = [suma EXCEPT ![t] = [pc |-> "load", b |-> 0, left |-> n]]
        /\ UNCHANGED <<program, a_global, mutex, spoiled>>
    BY <1>0 DEF write, Goto
  <1>2. /\ n \in 0..VUELTAS /\ n >= 1 /\ 0 \in Nat /\ program = "sched"
        /\ Stored(t) = VUELTAS - n
    BY <1>0, <1>1, PlaceFacts DEF CounterOK, PlaceOK
  <1>3. Moves(t, "load", 0, n)  BY <1>1, <1>2, RoundStep, Zenon
  <1>4. \A u \in Thread : PlaceOK(u)'  BY <1>1, <1>2, PlaceStep, Zenon
  <1>5. Stored(t)' = Stored(t) /\ Total' = Total  BY <1>2, <1>3, CounterAssumption DEF Moves
  <1>6. SumOK'  BY <1>1, <1>3, <1>5, Two DEF CounterOK, SumOK, Moves
  <1>7. MutexOK'  BY <1>1, <1>2 DEF CounterOK, MutexOK
  <1> QED  BY <1>1, <1>3, <1>4, <1>6, <1>7 DEF CounterOK, Moves

\* A thread takes its copy.
LEMMA LoadStep ==
  ASSUME CounterOK, NEW t \in Thread, load(t)
  PROVE  CounterOK'
  <1>0. PICK n : n = suma[t].left  OBVIOUS
  <1>1. /\ suma[t].pc = "load"
        /\ suma' = [suma EXCEPT ![t] = [pc |-> "store", b |-> a_global, left |-> n]]
        /\ UNCHANGED <<program, a_global, mutex, spoiled>>
    BY <1>0 DEF load, Goto
  <1>2. /\ n \in 0..VUELTAS /\ n >= 1 /\ 0 \in Nat /\ a_global \in Nat
        /\ Stored(t) = VUELTAS - n
    BY <1>0, <1>1, PlaceFacts
  <1>3. Moves(t, "store", a_global, n)  BY <1>1, <1>2, RoundStep, Zenon
  <1>4. \A u \in Thread : PlaceOK(u)'  BY <1>1, <1>2, PlaceStep, Zenon
  <1>5. Stored(t)' = Stored(t) /\ Total' = Total  BY <1>2, <1>3, CounterAssumption DEF Moves
  <1>6. \A u \in Thread : Stored(u) >= 0
    BY CounterAssumption DEF CounterOK, PlaceOK, Round, Stored
  <1>7. Stored(t) >= 1 => Total >= 1  BY <1>3, <1>6, Two DEF Total, Moves
  <1>8. SumOK'  BY <1>1, <1>3, <1>5, <1>7, Two DEF CounterOK, SumOK, Moves
  <1>9. \A u \in Thread : Inside(u)' <=> Inside(u)  BY <1>1, <1>3 DEF Inside, Moves
  <1>10. MutexOK'  BY <1>1, <1>3, <1>5, <1>9, Two DEF CounterOK, MutexOK, Moves
  <1> QED  BY <1>1, <1>3, <1>4, <1>8, <1>10 DEF CounterOK, Moves

\* A thread stores, and its round is over or, in oops_mutex.c, all but.
LEMMA StoreStep ==
  ASSUME CounterOK, NEW t \in Thread, store(t)
  PROVE  CounterOK'
  <1>0. PICK n, c : n = suma[t].left /\ c = suma[t].b  OBVIOUS
  <1>1. suma[t].pc = "store" /\ a_global' = c + 1 /\ UNCHANGED <<program, mutex, spoiled>>
    BY <1>0, Zenon DEF store
  <1>2. /\ n \in 0..VUELTAS /\ n >= 1 /\ n - 1 \in 0..VUELTAS /\ 0 \in Nat /\ c \in Nat
        /\ Stored(t) = VUELTAS - n /\ suma[t].pc \notin {"none", "exit"}
        /\ \A u \in Thread : suma[u].pc # "none"
    BY <1>0, <1>1, PlaceFacts
  <1>3. PICK s, m :
          /\ suma' = [suma EXCEPT ![t] = [pc |-> s, b |-> 0, left |-> m]]
          /\ IF program = "oops_mutex" THEN s = "post" /\ m = n
             ELSE m = n - 1 /\ s = IF n = 1 THEN "exit" ELSE First
    <2>1. CASE program = "oops_mutex"
      BY <1>0, <1>1, <2>1 DEF store, Last, Goto
    <2>2. CASE program # "oops_mutex"
      BY <1>0, <1>1, <2>2 DEF store, Last, EndRound
    <2> QED  BY <2>1, <2>2
  <1>4. /\ s \in {"wait", "write", "load", "store", "post", "exit"} /\ m \in 0..VUELTAS
        /\ s # "store" /\ (s = "post" <=> program = "oops_mutex") /\ s # "wait"
        /\ (s = "write" => program = "sched") /\ (s = "exit" => m = 0) /\ (s # "exit" => m >= 1)
    BY <1>2, <1>3 DEF First
  <1>5. Moves(t, s, 0, m)  BY <1>2, <1>3, <1>4, RoundStep, Zenon
  <1>6. \A u \in Thread : PlaceOK(u)'  BY <1>1, <1>2, <1>3, <1>4, PlaceStep, Zenon
  <1>7. Stored(t)' = Stored(t) + 1 /\ Total' = Total + 1
    BY <1>2, <1>3, <1>4, <1>5, CounterAssumption DEF Moves
  <1>8. SumOK'
    <2>1. c <= Total /\ (VUELTAS > n => c >= 1)
      BY <1>0, <1>1, <1>2, CounterAssumption DEF CounterOK, SumOK
    <2>2. a_global' <= Total' /\ a_global' >= 1  BY <1>1, <1>2, <1>5, <1>7, <2>1 DEF Moves
    <2>3. ASSUME NEW u \in Thread, suma'[u].pc = "store"
          PROVE  suma'[u].b <= Total' /\ (Stored(u)' >= 1 => suma'[u].b >= 1)
      <3>1. u # t /\ suma'[u] = suma[u] /\ Stored(u)' = Stored(u)  BY <1>4, <1>5, <2>3 DEF Moves
      <3>2. suma[u].b \in Nat  BY DEF CounterOK, PlaceOK, Round
      <3> QED  BY <1>5, <1>7, <2>3, <3>1, <3>2 DEF CounterOK, SumOK, Moves
    <2>4. VUELTAS > 1 /\ suma'[t].pc = "exit" => a_global' >= 2
      BY <1>1, <1>2, <1>3, <1>4, <1>5, <2>1, CounterAssumption DEF Moves
    <2> QED  BY <2>2, <2>3, <2>4, Two DEF SumOK
  <1>9. MutexOK'
    <2>1. CASE program # "oops_mutex"  BY <1>1, <2>1 DEF CounterOK, MutexOK
    <2>2. CASE program = "oops_mutex"
      <3>1. /\ c = a_global /\ a_global = Total /\ Inside(t) /\ mutex = 0 /\ ~spoiled
            /\ \A u \in Thread : u # t => ~Inside(u)
        BY <1>0, <1>1, <2>2, Two DEF CounterOK, MutexOK, Inside
      <3>2. s = "post" /\ Inside(t)' /\ \A u \in Thread : u # t => ~Inside(u)'
        BY <1>4, <1>5, <2>2, <3>1 DEF Inside, Moves
      <3>3. \A u \in Thread : suma'[u].pc # "store"  BY <1>5, <3>1, <3>2 DEF Inside, Moves
      <3> QED  BY <1>1, <1>7, <2>2, <3>1, <3>2, <3>3, Two DEF MutexOK
    <2> QED  BY <2>1, <2>2
  <1> QED  BY <1>1, <1>2, <1>5, <1>6, <1>8, <1>9 DEF CounterOK, Moves

\* sem_post() lets the other thread in.
LEMMA PostStep ==
  ASSUME CounterOK, NEW t \in Thread, mutex_post(t)
  PROVE  CounterOK'
  <1>0. PICK n : n = suma[t].left  OBVIOUS
  <1>1. suma[t].pc = "post" /\ mutex' = mutex + 1 /\ UNCHANGED <<program, a_global, spoiled>>
    BY <1>0, Zenon DEF mutex_post
  <1>2. /\ n \in 0..VUELTAS /\ n >= 1 /\ n - 1 \in 0..VUELTAS /\ 0 \in Nat
        /\ Stored(t) = VUELTAS - n + 1 /\ suma[t].pc \notin {"none", "exit"}
        /\ program = "oops_mutex"
    BY <1>0, <1>1, PlaceFacts DEF CounterOK, PlaceOK
  <1>3. PICK s, m :
          /\ suma' = [suma EXCEPT ![t] = [pc |-> s, b |-> 0, left |-> m]]
          /\ m = n - 1 /\ s = IF n = 1 THEN "exit" ELSE "wait"
    BY <1>0, <1>2, Zenon DEF mutex_post, EndRound, First
  <1>4. /\ s \in {"wait", "write", "load", "store", "post", "exit"} /\ m \in 0..VUELTAS
        /\ s \in {"wait", "exit"} /\ s # "post" /\ s # "write" /\ m = n - 1
        /\ (s = "exit" => m = 0) /\ (s # "exit" => m >= 1)
    BY <1>2, <1>3
  <1>5. Moves(t, s, 0, m)  BY <1>2, <1>3, <1>4, RoundStep, Zenon
  <1>6. \A u \in Thread : PlaceOK(u)'  BY <1>1, <1>2, <1>3, <1>4, PlaceStep, Zenon
  <1>7. Stored(t)' = Stored(t) /\ Total' = Total
    <2>1. Stored(t)' = VUELTAS - m  BY <1>4, <1>5, CounterAssumption DEF Moves
    <2>2. Stored(t)' = Stored(t)  BY <1>2, <1>4, <2>1, CounterAssumption
    <2>3. Total' - Total = Stored(t)' - Stored(t) /\ Total \in Int /\ Total' \in Int
      BY <1>5, Zenon DEF Moves
    <2>4. Stored(t) \in Int  BY <1>2, CounterAssumption
    <2>5. \A a, b, c, d \in Int : c = d /\ a - b = c - d => a = b  OBVIOUS
    <2> QED  BY <2>2, <2>3, <2>4, <2>5, Zenon
  <1>8. /\ Inside(t) /\ mutex = 0 /\ ~spoiled /\ a_global = Total
        /\ \A u \in Thread : u # t => ~Inside(u)
    BY <1>1, <1>2, Two DEF CounterOK, MutexOK, Inside
  <1>9. \A u \in Thread : ~Inside(u)' /\ suma'[u].pc # "store"
    BY <1>4, <1>5, <1>8 DEF Inside, Moves
  <1>10. suma'[1].pc = "exit" /\ suma'[2].pc = "exit" => Total' = 2 * VUELTAS
    <2> SUFFICES ASSUME suma'[1].pc = "exit", suma'[2].pc = "exit" PROVE Total' = 2 * VUELTAS
      OBVIOUS
    <2>1. \A u \in Thread : suma'[u].left = 0  BY <1>6, Two DEF PlaceOK
    <2>2. \A u \in Thread : Stored(u)' = VUELTAS  BY <2>1, Two, CounterAssumption DEF Stored
    <2> QED  BY <2>2, Two, CounterAssumption DEF Total
  <1>11. SumOK'
    BY <1>1, <1>5, <1>7, <1>8, <1>9, <1>10, CounterAssumption DEF CounterOK, SumOK, Moves
  <1>12. MutexOK'  BY <1>1, <1>2, <1>7, <1>8, <1>9, Two DEF MutexOK
  <1> QED  BY <1>1, <1>5, <1>6, <1>8, <1>11, <1>12 DEF CounterOK, Moves

\* main() starts the threads, with the semaphore that is there or a new one.
LEMMA MainStep ==
  ASSUME CounterOK, main
  PROVE  CounterOK'
  <1>1. /\ suma = NoThread /\ UNCHANGED <<program, a_global, spoiled>>
        /\ mutex' = IF program = "oops_mutex" /\ mutex = -1 THEN 1 ELSE mutex
        /\ suma' = [t \in Thread |-> [pc |-> First, b |-> 0, left |-> VUELTAS]]
    BY Zenon DEF main
  <1>2. First \in {"wait", "write", "load"} /\ (First = "wait" <=> program = "oops_mutex")
        /\ (First = "write" => program = "sched")
    BY DEF First
  <1>3. \A t \in Thread : /\ suma[t].pc = "none" /\ suma[t].left = VUELTAS
                          /\ suma'[t] = [pc |-> First, b |-> 0, left |-> VUELTAS]
    BY <1>1 DEF NoThread
  <1>4. VUELTAS \in Nat /\ VUELTAS >= 1 /\ VUELTAS \in 0..VUELTAS  BY CounterAssumption
  <1>5. \A t \in Thread : PlaceOK(t)'
    <2>1. \A t \in Thread : suma'[t] \in Round  BY <1>2, <1>3, <1>4 DEF Round
    <2> QED  BY <1>1, <1>2, <1>3, <1>4, <2>1 DEF PlaceOK
  <1>6. \A t \in Thread : Stored(t) = 0 /\ Stored(t)' = 0
    BY <1>2, <1>3, <1>4 DEF Stored
  <1>7. Total = 0 /\ Total' = 0  BY <1>6, Two DEF Total
  <1>8. \A t \in Thread : suma'[t].pc \in {"wait", "write", "load"}  BY <1>2, <1>3
  <1>9. SumOK'  BY <1>1, <1>7, <1>8, Two DEF CounterOK, SumOK
  <1>10. MutexOK'
    <2>1. CASE program # "oops_mutex"  BY <1>1, <2>1 DEF CounterOK, MutexOK
    <2>2. CASE program = "oops_mutex"
      <3>1. \A t \in Thread : ~Inside(t) /\ ~Inside(t)'
        BY <1>2, <1>3, <2>2 DEF Inside
      <3>2. mutex' \in {0, 1} /\ (mutex' = 0 <=> mutex = 0)  BY <1>1, <2>2 DEF CounterOK
      <3>3. (mutex = 0 => spoiled) /\ (spoiled => mutex = 0) /\ a_global = 0
        BY <1>7, <2>2, <3>1 DEF CounterOK, MutexOK
      <3> QED  BY <1>1, <1>7, <1>8, <2>2, <3>1, <3>2, <3>3, Two DEF MutexOK
    <2> QED  BY <2>1, <2>2
  <1>11. mutex' \in {-1, 0, 1}  BY <1>1 DEF CounterOK
  <1>12. suma' = [t \in Thread |-> suma'[t]]  BY <1>1
  <1> QED  BY <1>1, <1>5, <1>9, <1>10, <1>11, <1>12 DEF CounterOK

\* Before main() starts the threads.
LEMMA FreshOK ==
  ASSUME program \in {"glob", "sched", "oops", "oops_mutex"}, suma = NoThread, a_global = 0,
         mutex \in {-1, 0, 1}, spoiled \in BOOLEAN, spoiled <=> mutex = 0, program # "oops_mutex" => mutex = -1
  PROVE  CounterOK
  <1>1. \A t \in Thread : suma[t] = [pc |-> "none", b |-> 0, left |-> VUELTAS]
    BY DEF NoThread
  <1>2. VUELTAS \in Nat /\ VUELTAS \in 0..VUELTAS  BY CounterAssumption
  <1>3. \A t \in Thread : PlaceOK(t)
    <2>1. \A t \in Thread : suma[t] \in Round  BY <1>1, <1>2 DEF Round
    <2> QED  BY <1>1, <2>1, Two DEF PlaceOK
  <1>4. \A t \in Thread : Stored(t) = 0 /\ ~Inside(t)  BY <1>1, <1>2 DEF Stored, Inside
  <1>5. Total = 0  BY <1>4, Two DEF Total
  <1>6. SumOK  BY <1>1, <1>5, Two DEF SumOK
  <1>7. MutexOK  BY <1>1, <1>4, <1>5, Two DEF MutexOK
  <1>8. suma = [t \in Thread |-> suma[t]]   BY DEF NoThread
  <1> QED  BY <1>3, <1>6, <1>7, <1>8 DEF CounterOK

\* The same of a run that is about to start.
LEMMA FreshNext ==
  ASSUME (/\ program \in {"glob", "sched", "oops", "oops_mutex"} /\ suma = NoThread
          /\ a_global = 0 /\ mutex \in {-1, 0, 1} /\ spoiled \in BOOLEAN /\ (spoiled <=> mutex = 0)
          /\ program # "oops_mutex" => mutex = -1)'
  PROVE  CounterOK'
  BY FreshOK, PTL

\* Every step keeps the invariant.
LEMMA CounterNextOK ==
  ASSUME CounterOK, [CounterNext]_counterVars
  PROVE  CounterOK'
  <1>1. CASE UNCHANGED counterVars
    <2>1. UNCHANGED <<program, a_global, mutex, suma, spoiled>>  BY <1>1 DEF counterVars
    <2>2. \A t \in Thread : Stored(t)' = Stored(t) /\ Inside(t)' = Inside(t)
      BY <2>1 DEF Stored, Inside
    <2>3. Total' = Total  BY <2>2, Two DEF Total
    <2>4. SumOK'  BY <2>1, <2>2, <2>3 DEF CounterOK, SumOK
    <2>5. MutexOK'  BY <2>1, <2>2, <2>3, Two DEF CounterOK, MutexOK
    <2>6. \A t \in Thread : PlaceOK(t)'  BY <2>1 DEF CounterOK, PlaceOK
    <2> QED  BY <2>1, <2>4, <2>5, <2>6 DEF CounterOK
  <1>2. CASE Restart
    <2>1. /\ program' = program /\ suma' = NoThread /\ a_global' = 0 /\ mutex' = mutex
          /\ spoiled' \in BOOLEAN /\ (spoiled' <=> mutex = 0)
      BY <1>2, Zenon DEF Restart
    <2>2. NoThread' = NoThread  BY DEF NoThread
    <2>3. /\ program \in {"glob", "sched", "oops", "oops_mutex"} /\ mutex \in {-1, 0, 1}
          /\ program # "oops_mutex" => mutex = -1
      BY DEF CounterOK, MutexOK
    <2> QED  BY <2>1, <2>2, <2>3, FreshNext
  <1> QED
    BY <1>1, <1>2, MainStep, WaitStep, WriteStep, LoadStep, StoreStep, PostStep, Zenon DEF CounterNext

\* CountsRounds: what glob.c, oops.c and oops_mutex.c print, and where sched-threads.c
\* writes, for any number of rounds and any interleaving of their loads and stores.
THEOREM CountsRoundsHolds == CounterSpec => []CountsRounds
  <1>1. CounterInit => CounterOK
    <2> SUFFICES ASSUME CounterInit PROVE CounterOK  OBVIOUS
    <2>1. /\ program \in {"glob", "sched", "oops", "oops_mutex"} /\ suma = NoThread
          /\ a_global = 0 /\ mutex = -1 /\ spoiled \in BOOLEAN /\ ~spoiled
      BY Zenon DEF CounterInit
    <2> QED  BY <2>1, FreshOK
  <1>2. CounterOK /\ [CounterNext]_counterVars => CounterOK'  BY CounterNextOK
  <1>3. CounterOK => CountsRounds
    <2> SUFFICES ASSUME CounterOK PROVE CountsRounds  OBVIOUS
    <2>1. /\ VUELTAS \in Nat /\ VUELTAS >= 1 /\ a_global \in Nat
          /\ \A t \in Thread : suma[t].left \in 0..VUELTAS
      BY CounterAssumption DEF CounterOK, PlaceOK, Round
    <2>2. ASSUME \A t \in Thread : suma[t].pc = "exit"
          PROVE  IF program = "oops_mutex" THEN a_global = 2 * VUELTAS
                 ELSE a_global \in (IF VUELTAS > 1 THEN 2 ELSE 1)..2*VUELTAS
      <3>1. \A t \in Thread : suma[t].left = 0  BY <2>2 DEF CounterOK, PlaceOK
      <3>2. \A t \in Thread : Stored(t) = VUELTAS  BY <2>1, <2>2, <3>1 DEF Stored
      <3>3. Total = 2 * VUELTAS  BY <2>1, <3>2, Two DEF Total
      <3>4. CASE program = "oops_mutex"  BY <3>3, <3>4 DEF CounterOK, MutexOK
      <3>5. CASE program # "oops_mutex"
        <4>1. /\ a_global <= 2 * VUELTAS /\ a_global >= 1 /\ (VUELTAS > 1 => a_global >= 2)
          BY <2>1, <2>2, <3>3, Two DEF CounterOK, SumOK
        <4> QED  BY <2>1, <3>5, <4>1
      <3> QED  BY <3>4, <3>5
    <2>3. ASSUME \A t \in Thread : suma[t].pc \in {"wait", "exit"}, mutex = 0  PROVE spoiled
      BY <2>3 DEF CounterOK, MutexOK, Inside
    <2>4. ASSUME NEW t \in Thread, suma[t].pc = "write"  PROVE a_global \in 0 .. 2 * VUELTAS - 1
      <3>1. suma[t].left >= 1  BY <2>4 DEF CounterOK, PlaceOK
      <3>2. Stored(t) <= VUELTAS - 1 /\ Stored(t) \in Int  BY <2>1, <2>4, <3>1 DEF Stored
      <3>3. \A u \in Thread : Stored(u) <= VUELTAS /\ Stored(u) \in Int
        <4> TAKE u \in Thread
        <4>1. suma[u].pc = "post" => suma[u].left >= 1  BY DEF CounterOK, PlaceOK
        <4> QED  BY <2>1, <4>1 DEF Stored
      <3>4. Total <= 2 * VUELTAS - 1 /\ Total \in Int  BY <2>1, <3>2, <3>3, Two DEF Total
      <3> QED  BY <2>1, <3>4 DEF CounterOK, SumOK
    <2> QED  BY <2>2, <2>3, <2>4 DEF CountsRounds
  <1> QED  BY <1>1, <1>2, <1>3, PTL DEF CounterSpec

-----------------------------------------------------------------------------
\* A child that has ended, or is about to.
Doomed(c) == c \in Alive => <<c, "SIGTERM">> \in pending

\* The inductive invariant of forkprio.c: no child beyond numHijos, and the loop that
\* terminates the children has reached those below index.
PrioOK ==
  /\ numHijos \in Nat /\ index \in Nat
  /\ child \in [Child -> {"none", "born", "SIGTERM", "busywork", "reset", "ended"}]
  /\ \A c \in Child : c > numHijos => c \notin Alive
  /\ parent = "sleep" => \A c \in Child : c < index => Doomed(c)
  /\ NoneLeftBehind

\* A step without a fork() that takes no SIGTERM from a living child keeps it, if it
\* does not move main().
LEMMA DoomedKept ==
  ASSUME PrioOK, UNCHANGED <<numHijos, numSeg, index, parent>>,
         child' \in [Child -> {"none", "born", "SIGTERM", "busywork", "reset", "ended"}],
         Alive' \subseteq Alive,
         \A c \in Alive' : <<c, "SIGTERM">> \in pending => <<c, "SIGTERM">> \in pending'
  PROVE  PrioOK'
  <1>1. \A c \in Child : Doomed(c) => Doomed(c)'  BY Zenon DEF Doomed
  <1>2. \A c \in Child : c > numHijos => c \notin Alive'  BY Zenon DEF PrioOK
  <1>3. NoneLeftBehind'
    <2> SUFFICES ASSUME parent = "killAll" \/ (parent = "done" /\ numSeg = 1), NEW c \in Alive'
                 PROVE  <<c, "SIGTERM">> \in pending'
      BY Zenon DEF NoneLeftBehind
    <2>1. c \in Alive  OBVIOUS
    <2>2. <<c, "SIGTERM">> \in pending  BY <2>1, Zenon DEF PrioOK, NoneLeftBehind
    <2> QED  BY <2>2
  <1>4. numHijos' = numHijos /\ index' = index /\ parent' = parent  OBVIOUS
  <1> QED  BY <1>1, <1>2, <1>3, <1>4, Zenon DEF PrioOK

\* Every step of the parent, of a child and of the terminal keeps the invariant.
LEMMA PrioNextOK == PrioOK /\ [PrioNext]_prioVars => PrioOK'
  <1> SUFFICES ASSUME PrioOK, [PrioNext]_prioVars PROVE PrioOK'  OBVIOUS
  <1> USE PrioAssumption
  <1>1. CASE Fork
    <2>1. parent = "fork" /\ parent' \in {"fork", "fork_failed"}  BY <1>1 DEF Fork
    <2>2. index \in Child \/ index \notin Child  OBVIOUS
    <2>3. child' \in [Child -> {"none", "born", "SIGTERM", "busywork", "reset", "ended"}]
      BY <1>1, Zenon DEF Fork, PrioOK
    <2>4. \A c \in Child : c > numHijos => child'[c] = child[c]
      BY <1>1 DEF Fork, PrioOK
    <2>5. \A c \in Child : c > numHijos => c \notin Alive'
      BY <2>4, Zenon DEF PrioOK, Alive
    <2>6. numHijos' = numHijos /\ index' \in Nat  BY <1>1 DEF Fork, PrioOK
    <2>7. NoneLeftBehind'  BY <2>1 DEF NoneLeftBehind
    <2>8. parent' # "sleep"  BY <2>1
    <2> QED  BY <2>3, <2>5, <2>6, <2>7, <2>8, Zenon DEF PrioOK
  <1>2. CASE Handle
    <2>1. UNCHANGED <<numHijos, numSeg, child, pending>> /\ index' = 1
      BY <1>2, Zenon DEF Handle
    <2>2. parent' = "sleep" \/ parent' = "pause" \/ (parent' = "done" /\ numSeg # 1)
      BY <1>2, Zenon DEF Handle
    <2>3. NoneLeftBehind'  BY <2>1, <2>2 DEF NoneLeftBehind
    <2>4. \A c \in Child : ~(c < 1)  BY DEF Child
    <2>5. Alive' = Alive  BY <2>1, Zenon DEF Alive
    <2>6. 1 \in Nat  OBVIOUS
    <2> QED  BY <2>1, <2>3, <2>4, <2>5, <2>6, Zenon DEF PrioOK
  <1>3. CASE Terminate
    <2>1. parent = "sleep" /\ UNCHANGED <<numHijos, numSeg, child>>  BY <1>3, Zenon DEF Terminate
    <2>2. Alive' = Alive  BY <2>1, Zenon DEF Alive
    <2>3. CASE index > numHijos
      <3>1. parent' = "done" /\ UNCHANGED <<index, pending>>  BY <1>3, <2>3, Zenon DEF Terminate
      <3>2. \A c \in Alive : c \in Child /\ c < index
        BY <2>3 DEF PrioOK, Alive, Child
      <3>3. \A c \in Alive : <<c, "SIGTERM">> \in pending
        BY <2>1, <3>2, Zenon DEF PrioOK, Doomed
      <3>4. NoneLeftBehind'  BY <2>2, <3>1, <3>3, Zenon DEF NoneLeftBehind
      <3>5. parent' # "sleep"  BY <3>1
      <3> QED  BY <2>1, <2>2, <3>1, <3>4, <3>5, Zenon DEF PrioOK
    <2>4. CASE ~(index > numHijos)
      <3>1. index' = index + 1 /\ pending' = pending \cup {<<index, "SIGTERM">>} /\ parent' = parent
        BY <1>3, <2>4, Zenon DEF Terminate
      <3>2. \A c \in Child : c < index + 1 => c < index \/ c = index  BY DEF PrioOK, Child
      <3>3. \A c \in Child : c < index => Doomed(c)'
        BY <2>1, <2>2, <3>1, Zenon DEF PrioOK, Doomed
      <3>5. \A c \in Child : c < index' => Doomed(c)'
        <4> SUFFICES ASSUME NEW c \in Child, c < index' PROVE Doomed(c)'  OBVIOUS
        <4>1. c < index \/ c = index  BY <3>1, <3>2, Zenon
        <4>2. CASE c < index  BY <3>3, <4>2, Zenon
        <4>3. CASE c = index  BY <3>1, <4>3, Zenon DEF Doomed
        <4> QED  BY <4>1, <4>2, <4>3, Zenon
      <3>6. NoneLeftBehind'  BY <2>1, <3>1 DEF NoneLeftBehind
      <3>7. index' \in Nat  BY <3>1 DEF PrioOK
      <3> QED  BY <2>1, <2>2, <3>5, <3>6, <3>7, Zenon DEF PrioOK
    <2> QED  BY <2>3, <2>4, Zenon
  <1>4. CASE Interrupt
    <2>1. /\ UNCHANGED <<numHijos, numSeg, index, parent, child>> /\ pending \subseteq pending'
      BY <1>4, Zenon DEF Interrupt
    <2>2. Alive' = Alive  BY <2>1, Zenon DEF Alive
    <2>3. child' \in [Child -> {"none", "born", "SIGTERM", "busywork", "reset", "ended"}]
      BY <2>1, Zenon DEF PrioOK
    <2> QED  BY <2>1, <2>2, <2>3, DoomedKept, Zenon
  <1>5. CASE TakeParent
    <2>1. UNCHANGED <<numHijos, numSeg, index, child>>  BY <1>5, Zenon DEF TakeParent
    <2>2. Alive' = Alive  BY <2>1, Zenon DEF Alive
    <2>3. parent' \in {"SIGINT", "killAll"}  BY <1>5, Zenon DEF TakeParent
    <2>4. parent' = "killAll" => \A c \in Alive : <<c, "SIGTERM">> \in pending'
      <3> SUFFICES ASSUME parent' = "killAll", NEW c \in Alive PROVE <<c, "SIGTERM">> \in pending'
        BY Zenon
      <3>1. <<c, "SIGTERM">> \in killAll  BY Zenon DEF killAll
      <3>2. killAll \subseteq pending'  BY <1>5, Zenon DEF TakeParent
      <3> QED  BY <3>1, <3>2, Zenon
    <2>5. NoneLeftBehind'  BY <2>2, <2>3, <2>4, Zenon DEF NoneLeftBehind
    <2>6. parent' # "sleep"  BY <2>3
    <2> QED  BY <2>1, <2>2, <2>5, <2>6, Zenon DEF PrioOK
  <1>6. ASSUME NEW c \in Child, Setup(c)  PROVE PrioOK'
    <2>1. /\ child[c] \in {"born", "SIGTERM"} /\ UNCHANGED <<numHijos, numSeg, index, parent, pending>>
          /\ child' = [child EXCEPT ![c] = IF child[c] = "born" THEN "SIGTERM" ELSE "busywork"]
      BY <1>6, Zenon DEF Setup
    <2>2. child' \in [Child -> {"none", "born", "SIGTERM", "busywork", "reset", "ended"}]
      BY <2>1 DEF PrioOK
    <2>3. \A d \in Child : d # c => child'[d] = child[d]  BY <2>1, Zenon DEF PrioOK
    <2>4. c \in Alive  BY <2>1 DEF Alive
    <2>5. Alive' \subseteq Alive  BY <2>3, <2>4, Zenon DEF Alive
    <2> QED  BY <2>1, <2>2, <2>5, DoomedKept, Zenon
  <1>7. ASSUME NEW c \in Child, NEW sig \in {"SIGINT", "SIGTERM"}, TakeChild(c, sig)  PROVE PrioOK'
    <2>1. PICK h \in {"busywork", "reset"} :
            /\ pending' = pending \ {<<c, sig>>} /\ UNCHANGED <<numHijos, numSeg, index, parent>>
            /\ child' = [child EXCEPT ![c] =
                           IF sig = "SIGINT" /\ child[c] = "busywork" THEN h ELSE "ended"]
      BY <1>7, Zenon DEF TakeChild
    <2>2. child' \in [Child -> {"none", "born", "SIGTERM", "busywork", "reset", "ended"}]
      BY <2>1 DEF PrioOK
    <2>3. \A d \in Child : d # c => child'[d] = child[d]  BY <2>1, Zenon DEF PrioOK
    <2>4. child'[c] = IF sig = "SIGINT" /\ child[c] = "busywork" THEN h ELSE "ended"
      BY <2>1, Zenon DEF PrioOK
    <2>5. c \in Alive' => c \in Alive /\ sig = "SIGINT"  BY <2>4 DEF Alive
    <2>6. Alive' \subseteq Alive  BY <2>3, <2>5, Zenon DEF Alive
    <2>7. \A d \in Alive' : <<d, "SIGTERM">> \in pending => <<d, "SIGTERM">> \in pending'
      <3> SUFFICES ASSUME NEW d \in Alive', <<d, "SIGTERM">> \in pending
                   PROVE  <<d, "SIGTERM">> # <<c, sig>>
        BY <2>1, Zenon
      <3>1. "SIGINT" # "SIGTERM"  OBVIOUS
      <3> QED  BY <2>5, <3>1
    <2> QED  BY <2>1, <2>2, <2>6, <2>7, DoomedKept, Zenon
  <1>8. CASE UNCHANGED prioVars
    <2>1. UNCHANGED <<numHijos, numSeg, index, parent, child, pending>>  BY <1>8, Zenon DEF prioVars
    <2>2. Alive' = Alive  BY <2>1, Zenon DEF Alive
    <2>3. child' \in [Child -> {"none", "born", "SIGTERM", "busywork", "reset", "ended"}]
      BY <2>1, Zenon DEF PrioOK
    <2> QED  BY <2>1, <2>2, <2>3, DoomedKept, Zenon
  <1> QED  BY <1>1, <1>2, <1>3, <1>4, <1>5, <1>6, <1>7, <1>8, Zenon DEF PrioNext

\* The parent of forkprio.c leaves no child behind, for any number of children and any ^C.
THEOREM NoneLeftBehindHolds == PrioSpec => []NoneLeftBehind
  <1>1. PrioInit => PrioOK
    <2> SUFFICES ASSUME PrioInit PROVE PrioOK  OBVIOUS
    <2>1. child \in [Child -> {"none", "born", "SIGTERM", "busywork", "reset", "ended"}]
      BY DEF PrioInit
    <2>2. Alive = {}  BY DEF PrioInit, Alive
    <2>3. numHijos \in Nat /\ index \in Nat /\ parent = "fork"  BY PrioAssumption DEF PrioInit
    <2> QED  BY <2>1, <2>2, <2>3 DEF PrioOK, NoneLeftBehind
  <1>2. PrioOK => NoneLeftBehind  BY Zenon DEF PrioOK
  <1> QED  BY <1>1, <1>2, PrioNextOK, PTL DEF PrioSpec

-----------------------------------------------------------------------------
\* A program of a user.
ProgRec == [name : {"none", "mutex", "mutexnowait", "up", "down", "semgetval", "semdestroy"},
            pc : {"none", "opened", "timedwait", "zone"}, sem : Int]

\* A program that has opened a semaphore.
OpenOK(k, val) == k = NoProgram \/ (k.pc # "none" /\ k.sem \in Object /\ val[k.sem] # -1)

\* The token that a program has.
Token(k) == IF k.pc = "zone" THEN 1 ELSE 0

\* The tokens of a semaphore: in it, in the zone, lost.
SemOK(o) ==
  /\ value[o] = -1 => ups[o] = 0 /\ lost[o] = 0
  /\ value[o] # -1 => /\ value[o] >= 0
                      /\ value[o] + Cardinality(InZone(o)) + lost[o] = 1 + ups[o]

\* The inductive invariant of the named semaphores.
NamedOK ==
  /\ value \in [Object -> Int] /\ ups \in [Object -> Nat] /\ lost \in [Object -> Nat]
  /\ running \in [User -> ProgRec]
  /\ name # 0 => name \in Object /\ value[name] # -1
  /\ \A u \in User : OpenOK(running[u], value)
  /\ \A o \in Object : SemOK(o)

\* The users in a zone are finitely many.
LEMMA ZoneFinite ==
  ASSUME NEW o
  PROVE  IsFiniteSet(InZone(o)) /\ Cardinality(InZone(o)) \in Nat
  <1>1. InZone(o) \subseteq User  BY Zenon DEF InZone
  <1>2. IsFiniteSet(InZone(o))  BY <1>1, NamedAssumption, FS_Subset, Zenon
  <1> QED  BY <1>2, FS_CardinalityType, Zenon

\* What a step of one user does to the zones: it comes in, goes out, or neither.
LEMMA ZoneStep ==
  ASSUME NamedOK, NEW u \in User, NEW k \in ProgRec,
         running' = [running EXCEPT ![u] = k], NEW o \in Object
  PROVE  Cardinality(InZone(o)') = Cardinality(InZone(o))
           - (IF u \in InZone(o) THEN 1 ELSE 0)
           + (IF k.pc = "zone" /\ k.sem = o THEN 1 ELSE 0)
  <1> DEFINE R == InZone(o) \ {u}
  <1>1. running'[u] = k /\ \A v \in User : v # u => running'[v] = running[v]  BY Zenon DEF NamedOK
  <1>2. IsFiniteSet(InZone(o)) /\ Cardinality(InZone(o)) \in Nat  BY ZoneFinite, Zenon
  <1>3. /\ IsFiniteSet(R) /\ Cardinality(R) \in Nat
        /\ Cardinality(R) = IF u \in InZone(o) THEN Cardinality(InZone(o)) - 1 ELSE Cardinality(InZone(o))
    <2>1. IsFiniteSet(R)  BY <1>2, FS_Subset, Zenon
    <2>2. Cardinality(R) \in Nat  BY <2>1, FS_CardinalityType, Zenon
    <2>3. CASE u \in InZone(o)  BY <1>2, <2>1, <2>2, <2>3, FS_RemoveElement
    <2>4. CASE u \notin InZone(o)
      <3>1. R = InZone(o)  BY <2>4, Zenon
      <3> QED  BY <2>1, <2>2, <2>4, <3>1, Zenon
    <2> QED  BY <2>3, <2>4, Zenon
  <1>4. CASE k.pc = "zone" /\ k.sem = o
    <2>1. InZone(o)' = R \cup {u}  BY <1>1, <1>4, Zenon DEF InZone
    <2>2. u \notin R  BY Zenon
    <2>3. Cardinality(InZone(o)') = Cardinality(R) + 1  BY <1>3, <2>1, <2>2, FS_AddElement, Zenon
    <2> HIDE DEF R
    <2> QED  BY <1>2, <1>3, <1>4, <2>3
  <1>5. CASE ~(k.pc = "zone" /\ k.sem = o)
    <2>1. InZone(o)' = R  BY <1>1, <1>5, Zenon DEF InZone
    <2> HIDE DEF R
    <2> QED  BY <1>2, <1>3, <1>5, <2>1
  <1> QED  BY <1>4, <1>5, Zenon

\* The record of a user without a program.
LEMMA Nothing ==
  /\ NoProgram \in ProgRec /\ NoProgram.pc = "none"
  /\ \A val : OpenOK(NoProgram, val)
  <1>1. NoProgram \in ProgRec /\ NoProgram.pc = "none"  BY DEF NoProgram, ProgRec
  <1> QED  BY <1>1, Zenon DEF OpenOK

\* A user that runs a program has a semaphore that exists.
LEMMA HasSem ==
  ASSUME NamedOK, NEW u \in User, running[u].pc # "none"
  PROVE  /\ running[u] # NoProgram /\ running[u].sem \in Object
         /\ value[running[u].sem] # -1 /\ value[running[u].sem] \in Nat
         /\ OpenOK(running[u], value)
         /\ running[u] \in ProgRec
  <1>1. running[u] # NoProgram  BY Nothing
  <1>2. OpenOK(running[u], value)  BY Zenon DEF NamedOK
  <1>3. running[u].sem \in Object /\ value[running[u].sem] # -1  BY <1>1, <1>2, Zenon DEF OpenOK
  <1>4. value[running[u].sem] \in Int /\ value[running[u].sem] >= 0  BY <1>3, Zenon DEF NamedOK, SemOK
  <1>5. running[u] \in ProgRec  BY Zenon DEF NamedOK
  <1> QED  BY <1>1, <1>2, <1>3, <1>4, <1>5

\* What does not change, changes by 0.
LEMMA Zero ==
  ASSUME NEW f \in [Object -> Nat] \cup [Object -> Int], NEW x \in Object
  PROVE  [f EXCEPT ![x] = f[x] + 0] = f
  <1>1. f[x] \in Int /\ f = [o \in Object |-> f[o]]  OBVIOUS
  <1>2. f[x] + 0 = f[x]  BY <1>1
  <1> QED  BY <1>1, <1>2

\* A step of one user on its semaphore: the tokens that enter and leave balance.
LEMMA Balance ==
  ASSUME NamedOK, NEW u \in User, NEW k \in ProgRec,
         running' = [running EXCEPT ![u] = k], OpenOK(k, value), k.pc = "zone" => k.sem = running[u].sem,
         running[u] # NoProgram, name' = name \/ name' = 0,
         NEW dv \in Int, NEW du \in Nat, NEW dl \in Nat, value[running[u].sem] + dv >= 0,
         value' = [value EXCEPT ![running[u].sem] = value[running[u].sem] + dv],
         ups' = IF du = 0 THEN ups ELSE [ups EXCEPT ![running[u].sem] = ups[running[u].sem] + du],
         lost' = IF dl = 0 THEN lost ELSE [lost EXCEPT ![running[u].sem] = lost[running[u].sem] + dl],
         dv - Token(running[u]) + Token(k) + dl = du
  PROVE  NamedOK'
  <1>0. PICK x : x = running[u].sem  OBVIOUS
  <1>1. x \in Object /\ value[x] # -1 /\ running[u].sem = x /\ value[x] + dv >= 0
    BY <1>0, Zenon DEF NamedOK, OpenOK
  <1>u. ups' = [ups EXCEPT ![x] = ups[x] + du]
    <2>1. ups \in [Object -> Nat]  BY Zenon DEF NamedOK
    <2> QED  BY <1>0, <1>1, <2>1, Zero, Zenon
  <1>l. lost' = [lost EXCEPT ![x] = lost[x] + dl]
    <2>1. lost \in [Object -> Nat]  BY Zenon DEF NamedOK
    <2> QED  BY <1>0, <1>1, <2>1, Zero, Zenon
  <1>v. value' = [value EXCEPT ![x] = value[x] + dv]  BY <1>0, Zenon
  <1>2. /\ value' \in [Object -> Int] /\ ups' \in [Object -> Nat] /\ lost' \in [Object -> Nat]
        /\ value'[x] = value[x] + dv /\ ups'[x] = ups[x] + du /\ lost'[x] = lost[x] + dl
        /\ \A o \in Object : o # x => value'[o] = value[o] /\ ups'[o] = ups[o] /\ lost'[o] = lost[o]
    BY <1>1, <1>u, <1>l, <1>v DEF NamedOK
  <1>3. value'[x] # -1 /\ value[x] \in Int  BY <1>1, <1>2 DEF NamedOK
  <1>4. \A o \in Object : value'[o] # -1 <=> value[o] # -1  BY <1>1, <1>2, <1>3, Zenon
  <1>5. running' \in [User -> ProgRec]  BY DEF NamedOK
  <1>6. name' # 0 => name' \in Object /\ value'[name'] # -1  BY <1>4, Zenon DEF NamedOK
  <1>7. \A v \in User : OpenOK(running'[v], value')
    <2>1. \A j : OpenOK(j, value) => OpenOK(j, value')  BY <1>4, Zenon DEF OpenOK
    <2>2. \A v \in User : running'[v] = k \/ running'[v] = running[v]  BY Zenon DEF NamedOK
    <2> QED  BY <2>1, <2>2, Zenon DEF NamedOK
  <1>8. ASSUME NEW o \in Object  PROVE SemOK(o)'
    <2> DEFINE c == Cardinality(InZone(o))
               d == Cardinality(InZone(o)')
    <2>1. /\ d = c - (IF u \in InZone(o) THEN 1 ELSE 0) + (IF k.pc = "zone" /\ k.sem = o THEN 1 ELSE 0)
          /\ c \in Nat
      BY ZoneStep, ZoneFinite, Zenon
    <2>2. u \in InZone(o) <=> running[u].pc = "zone" /\ o = x  BY <1>1, Zenon DEF InZone
    <2>3. k.pc = "zone" /\ k.sem = o <=> k.pc = "zone" /\ o = x  BY <1>1, Zenon
    <2>4. SemOK(o)  BY Zenon DEF NamedOK
    <2>5. /\ value[o] \in Int /\ ups[o] \in Nat /\ lost[o] \in Nat
          /\ value[o] = -1 => ups[o] = 0 /\ lost[o] = 0
          /\ value[o] # -1 => value[o] >= 0 /\ value[o] + c + lost[o] = 1 + ups[o]
      BY <2>4, Zenon DEF SemOK, NamedOK
    <2> HIDE DEF c, d
    <2>6. /\ value'[o] = -1 => ups'[o] = 0 /\ lost'[o] = 0
          /\ value'[o] # -1 => value'[o] >= 0 /\ value'[o] + d + lost'[o] = 1 + ups'[o]
      <3>1. CASE o = x
        <4>1. d = c - Token(running[u]) + Token(k)  BY <2>1, <2>2, <2>3, <3>1, Zenon DEF Token
        <4>2. Token(running[u]) \in Int /\ Token(k) \in Int  BY DEF Token
        <4>3. c \in Nat  BY <2>1, Zenon
        <4> QED  BY <1>1, <1>2, <1>3, <2>5, <3>1, <4>1, <4>2, <4>3
      <3>2. CASE o # x
        <4>1. value'[o] = value[o] /\ ups'[o] = ups[o] /\ lost'[o] = lost[o]  BY <1>2, <3>2, Zenon
        <4>2. u \notin InZone(o) /\ ~(k.pc = "zone" /\ k.sem = o)  BY <2>2, <2>3, <3>2, Zenon
        <4>3. d = c - 0 + 0 /\ c \in Nat  BY <2>1, <4>2, Zenon
        <4>4. d = c  BY <4>3
        <4> QED  BY <2>5, <4>1, <4>4, Zenon
      <3> QED  BY <3>1, <3>2, Zenon
    <2> QED  BY <2>6, Zenon DEF SemOK, d
  <1> QED  BY <1>2, <1>5, <1>6, <1>7, <1>8, Zenon DEF NamedOK

\* A program that opens a semaphore, or ends without a token.
LEMMA Comes ==
  ASSUME NamedOK, NEW u \in User, NEW k \in ProgRec,
         running' = [running EXCEPT ![u] = k], k.pc # "zone", running[u].pc # "zone",
         value' \in [Object -> Int], UNCHANGED <<ups, lost>>,
         \A o \in Object : value[o] # -1 => value'[o] = value[o],
         \A o \in Object : value[o] = -1 => value'[o] \in {-1, 1},
         name' # 0 => name' \in Object /\ value'[name'] # -1,
         OpenOK(k, value')
  PROVE  NamedOK'
  <1>1. \A o \in Object : value[o] # -1 => value'[o] # -1  BY Zenon
  <1>2. running' \in [User -> ProgRec]  BY DEF NamedOK
  <1>3. \A v \in User : OpenOK(running'[v], value')
    <2>1. \A j : OpenOK(j, value) => OpenOK(j, value')  BY <1>1, Zenon DEF OpenOK
    <2>2. \A v \in User : running'[v] = k \/ running'[v] = running[v]  BY Zenon DEF NamedOK
    <2> QED  BY <2>1, <2>2, Zenon DEF NamedOK
  <1>4. ASSUME NEW o \in Object  PROVE SemOK(o)'
    <2> DEFINE c == Cardinality(InZone(o))
               d == Cardinality(InZone(o)')
    <2>1. d = c - (IF u \in InZone(o) THEN 1 ELSE 0) + (IF k.pc = "zone" /\ k.sem = o THEN 1 ELSE 0)
      BY ZoneStep, Zenon
    <2>a. c \in Nat  BY ZoneFinite, Zenon
    <2>2. u \notin InZone(o) /\ ~(k.pc = "zone" /\ k.sem = o)  BY Zenon DEF InZone
    <2>3. SemOK(o)  BY Zenon DEF NamedOK
    <2>4. /\ value[o] \in Int /\ ups[o] \in Nat /\ lost[o] \in Nat
          /\ value[o] = -1 => ups[o] = 0 /\ lost[o] = 0
          /\ value[o] # -1 => value[o] >= 0 /\ value[o] + c + lost[o] = 1 + ups[o]
      BY <2>3, Zenon DEF SemOK, NamedOK
    <2>5. value[o] = -1 => c = 0
      <3> SUFFICES ASSUME value[o] = -1 PROVE c = 0  OBVIOUS
      <3>1. \A v \in User : ~(running[v].pc = "zone" /\ running[v].sem = o)
        <4> SUFFICES ASSUME NEW v \in User, running[v].pc = "zone", running[v].sem = o PROVE FALSE
          OBVIOUS
        <4>1. OpenOK(running[v], value)  BY Zenon DEF NamedOK
        <4>2. NoProgram.pc = "none"  BY DEF NoProgram
        <4>3. running[v] # NoProgram  BY <4>2
        <4> QED  BY <4>1, <4>3, Zenon DEF OpenOK
      <3>2. InZone(o) = {}  BY <3>1, Zenon DEF InZone
      <3> QED  BY <3>2, FS_EmptySet, Zenon
    <2> HIDE DEF c, d
    <2>6. d = c  BY <2>1, <2>a, <2>2
    <2>7. ups'[o] = ups[o] /\ lost'[o] = lost[o]  OBVIOUS
    <2>8. value'[o] = value[o] \/ (value[o] = -1 /\ value'[o] = 1)  BY Zenon
    <2>9. /\ value'[o] = -1 => ups'[o] = 0 /\ lost'[o] = 0
          /\ value'[o] # -1 => value'[o] >= 0 /\ value'[o] + d + lost'[o] = 1 + ups'[o]
      <3>1. CASE value'[o] = value[o]  BY <2>a, <2>4, <2>6, <2>7, <3>1
      <3>2. CASE value[o] = -1 /\ value'[o] = 1  BY <2>a, <2>4, <2>5, <2>6, <2>7, <3>2
      <3> QED  BY <2>8, <3>1, <3>2, Zenon
    <2> QED  BY <2>9, Zenon DEF SemOK, d
  <1>5. ups' = ups /\ lost' = lost  OBVIOUS
  <1> QED  BY <1>2, <1>3, <1>4, <1>5, Zenon DEF NamedOK

\* Every step of the programs keeps the invariant.
LEMMA NamedNextOK == NamedOK /\ [NamedNext]_semVars => NamedOK'
  <1> SUFFICES ASSUME NamedOK, [NamedNext]_semVars PROVE NamedOK'  OBVIOUS
  <1>0. /\ value \in [Object -> Int] /\ ups \in [Object -> Nat] /\ lost \in [Object -> Nat]
        /\ name # 0 => name \in Object /\ value[name] # -1
        /\ running \in [User -> ProgRec]
    BY Zenon DEF NamedOK
  <1>1. ASSUME NEW u \in User, NEW p \in {"mutex", "mutexnowait", "up", "down", "semgetval"}, Open(u, p)
        PROVE  NamedOK'
    <2>1. /\ value' \in [Object -> Int] /\ name' \in Object /\ value'[name'] # -1
          /\ \A o \in Object : value[o] # -1 => value'[o] = value[o]
          /\ \A o \in Object : value[o] = -1 => value'[o] \in {-1, 1}
      <3>1. CASE name # 0  BY <1>0, <1>1, <3>1 DEF Open
      <3>2. CASE name = 0
        <4>1. PICK o \in New : name' = o /\ value' = [value EXCEPT ![o] = 1]
          BY <1>1, <3>2, Zenon DEF Open
        <4> QED  BY <1>0, <4>1 DEF New
      <3> QED  BY <3>1, <3>2, Zenon
    <2>2. PICK k : /\ running' = [running EXCEPT ![u] = k]
                   /\ k = NoProgram \/ k = [name |-> p, pc |-> "opened", sem |-> name']
      BY <1>1, Zenon DEF Open
    <2>3. name' \in Int  BY <2>1 DEF Object
    <2>4. k \in ProgRec /\ k.pc # "zone" /\ OpenOK(k, value')
      <3>1. CASE k = NoProgram  BY <3>1, Nothing
      <3>2. CASE k = [name |-> p, pc |-> "opened", sem |-> name']
        BY <2>1, <2>3, <3>2 DEF OpenOK, ProgRec
      <3> QED  BY <2>2, <3>1, <3>2, Zenon
    <2>5. running[u].pc # "zone"  BY <1>1, Nothing DEF Open
    <2>6. UNCHANGED <<ups, lost>>  BY <1>1, Zenon DEF Open
    <2> QED  BY <2>1, <2>2, <2>4, <2>5, <2>6, Comes, Zenon
  <1>a. ASSUME NEW u \in User, NEW k \in ProgRec, running' = [running EXCEPT ![u] = k],
               k.pc # "zone", running[u].pc # "zone", OpenOK(k, value), UNCHANGED <<value, ups, lost>>,
               name' = name \/ name' = 0
        PROVE  NamedOK'
    <2>1. /\ value' \in [Object -> Int] /\ \A o \in Object : value'[o] = value[o]
          /\ name' # 0 => name' \in Object /\ value'[name'] # -1 
          /\ OpenOK(k, value')
      BY <1>0, <1>a, Zenon
    <2> QED  BY <1>a, <2>1, Comes, Zenon
  <1>2. ASSUME NEW u \in User, Enter(u)  PROVE NamedOK'
    <2>1. /\ running[u].pc \in {"opened", "timedwait"} /\ value[running[u].sem] > 0
          /\ value' = [value EXCEPT ![running[u].sem] = value[running[u].sem] + (-1)]
          /\ running' = [running EXCEPT ![u] =
                           [name |-> running[u].name, pc |-> "zone", sem |-> running[u].sem]]
          /\ UNCHANGED <<name, ups, lost>>
      BY <1>2, Zenon DEF Enter, AddTo, Go, In
    <2>2. PICK k : k = [name |-> running[u].name, pc |-> "zone", sem |-> running[u].sem]  BY Zenon
    <2>3. running[u].pc # "none" /\ running[u].pc # "zone"  BY <2>1
    <2>4. /\ running[u] \in ProgRec /\ value[running[u].sem] \in Nat /\ running[u].sem \in Object
          /\ value[running[u].sem] # -1 /\ running[u] # NoProgram
      BY <2>3, HasSem, Zenon
    <2>5. k \in ProgRec /\ k.pc = "zone" /\ k.sem = running[u].sem /\ OpenOK(k, value)
      BY <2>2, <2>4 DEF OpenOK, ProgRec
    <2>6. value[running[u].sem] + (-1) >= 0  BY <2>1, <2>4
    <2>7. (-1) - Token(running[u]) + Token(k) + 0 = 0
      <3>1. Token(running[u]) = 0 /\ Token(k) = 1  BY <2>3, <2>5, Zenon DEF Token
      <3> QED  BY <3>1
    <2>8. -1 \in Int /\ 0 \in Nat  OBVIOUS
    <2> QED  BY <2>1, <2>2, <2>4, <2>5, <2>6, <2>7, <2>8, Balance, Zenon
  <1>3. ASSUME NEW u \in User, Busy(u)  PROVE NamedOK'
    <2>1. /\ running[u].pc = "opened" /\ UNCHANGED <<name, value, ups, lost>>
          /\ running' = [running EXCEPT ![u] =
                           [name |-> running[u].name, pc |-> "timedwait", sem |-> running[u].sem]]
      BY <1>3, Zenon DEF Busy, Go, In
    <2>2. PICK k : k = [name |-> running[u].name, pc |-> "timedwait", sem |-> running[u].sem]  BY Zenon
    <2>3. running[u].pc # "none" /\ running[u].pc # "zone"  BY <2>1
    <2>4. running[u] \in ProgRec /\ running[u].sem \in Object /\ value[running[u].sem] # -1
      BY <2>3, HasSem, Zenon
    <2>5. k \in ProgRec /\ k.pc # "zone" /\ OpenOK(k, value)  BY <2>2, <2>4 DEF OpenOK, ProgRec
    <2> QED  BY <1>a, <2>1, <2>2, <2>3, <2>5, Zenon
  <1>4. ASSUME NEW u \in User, TimedOut(u) \/ Unlink(u)  PROVE NamedOK'
    <2>1. /\ running[u].pc \in {"timedwait", "opened"} /\ running' = [running EXCEPT ![u] = NoProgram]
          /\ UNCHANGED <<value, ups, lost>> /\ (name' = name \/ name' = 0)
      BY <1>4, Zenon DEF TimedOut, Unlink, Leave, In
    <2>2. running[u].pc # "zone" /\ NoProgram.pc # "zone"  BY <2>1, Nothing
    <2> QED  BY <1>a, <2>1, <2>2, Nothing, Zenon
  <1>5. ASSUME NEW u \in User, Exit(u) \/ RunUp(u) \/ RunDown(u)  PROVE NamedOK'
    <2>1. running' = [running EXCEPT ![u] = NoProgram] /\ name' = name
      BY <1>5, Zenon DEF Exit, RunUp, RunDown, Leave
    <2>2. NoProgram.pc # "zone"  BY Nothing
    <2>3. CASE Exit(u)
      <3>1. /\ running[u].pc = "zone" /\ UNCHANGED <<ups, lost>>
            /\ value' = [value EXCEPT ![running[u].sem] = value[running[u].sem] + 1]
        BY <2>3, Zenon DEF Exit, In, AddTo
      <3>2. running[u].pc # "none"  BY <3>1
      <3>3. value[running[u].sem] + 1 >= 0  BY <3>2, HasSem
      <3>4. 1 - Token(running[u]) + Token(NoProgram) + 0 = 0
        BY <2>2, <3>1 DEF Token
      <3>5. 1 \in Int /\ 0 \in Nat  OBVIOUS
      <3> QED  BY <2>1, <2>2, <3>1, <3>2, <3>3, <3>4, <3>5, Balance, Nothing, Zenon
    <2>4. CASE RunUp(u)
      <3>1. /\ running[u].pc = "opened" /\ UNCHANGED lost
            /\ value' = [value EXCEPT ![running[u].sem] = value[running[u].sem] + 1]
            /\ ups' = [ups EXCEPT ![running[u].sem] = ups[running[u].sem] + 1]
        BY <2>4, Zenon DEF RunUp, In, AddTo
      <3>2. running[u].pc # "none" /\ running[u].pc # "zone"  BY <3>1
      <3>3. value[running[u].sem] + 1 >= 0  BY <3>2, HasSem
      <3>4. 1 - Token(running[u]) + Token(NoProgram) + 0 = 1
        BY <2>2, <3>2 DEF Token
      <3>5. 1 \in Int /\ 0 \in Nat /\ 1 \in Nat /\ 1 # 0  OBVIOUS
      <3> QED  BY <2>1, <2>2, <3>1, <3>2, <3>3, <3>4, <3>5, Balance, Nothing, Zenon
    <2>5. CASE RunDown(u)
      <3>1. /\ running[u].pc = "opened" /\ UNCHANGED ups /\ value[running[u].sem] > 0
            /\ value' = [value EXCEPT ![running[u].sem] = value[running[u].sem] + (-1)]
            /\ lost' = [lost EXCEPT ![running[u].sem] = lost[running[u].sem] + 1]
        BY <2>5, Zenon DEF RunDown, In, AddTo
      <3>2. running[u].pc # "none" /\ running[u].pc # "zone"  BY <3>1
      <3>3. value[running[u].sem] + (-1) >= 0  BY <3>1, <3>2, HasSem
      <3>4. (-1) - Token(running[u]) + Token(NoProgram) + 1 = 0
        BY <2>2, <3>2 DEF Token
      <3>5. -1 \in Int /\ 0 \in Nat /\ 1 \in Nat /\ 1 # 0  OBVIOUS
      <3> QED  BY <2>1, <2>2, <3>1, <3>2, <3>3, <3>4, <3>5, Balance, Nothing, Zenon
    <2> QED  BY <1>5, <2>3, <2>4, <2>5, Zenon
  <1>6. ASSUME NEW u \in User, FindToDestroy(u)  PROVE NamedOK'
    <2>1. /\ running[u] = NoProgram /\ name # 0 /\ UNCHANGED <<name, value, ups, lost>>
          /\ running' = [running EXCEPT ![u] = [name |-> "semdestroy", pc |-> "opened", sem |-> name]]
      BY <1>6, Zenon DEF FindToDestroy
    <2>2. PICK k : k = [name |-> "semdestroy", pc |-> "opened", sem |-> name]  BY Zenon
    <2>3. running[u].pc # "zone"  BY <2>1, Nothing
    <2>4. k \in ProgRec /\ k.pc # "zone" /\ OpenOK(k, value)
      BY <1>0, <2>1, <2>2 DEF OpenOK, Object, ProgRec
    <2> QED  BY <1>a, <2>1, <2>2, <2>3, <2>4, Zenon
  <1>7. ASSUME NEW u \in User, KillUser(u)  PROVE NamedOK'
    <2>1. /\ running' = [running EXCEPT ![u] = NoProgram] /\ UNCHANGED <<name, value, ups>>
          /\ lost' = IF running[u].pc = "zone"
                     THEN [lost EXCEPT ![running[u].sem] = lost[running[u].sem] + 1] ELSE lost
      BY <1>7, Zenon DEF KillUser, Leave
    <2>2. NoProgram.pc # "zone"  BY Nothing
    <2>3. CASE running[u].pc = "zone"
      <3>1. running[u].pc # "none"  BY <2>3
      <3>2. /\ value[running[u].sem] + 0 >= 0 /\ running[u].sem \in Object
        BY <3>1, HasSem
      <3>3. 0 - Token(running[u]) + Token(NoProgram) + 1 = 0
        BY <2>2, <2>3 DEF Token
      <3>4. 0 \in Int /\ 0 \in Nat /\ 1 \in Nat /\ 1 # 0  OBVIOUS
      <3>5. value' = [value EXCEPT ![running[u].sem] = value[running[u].sem] + 0]
        BY <1>0, <2>1, <3>2, Zero, Zenon
      <3> QED  BY <2>1, <2>2, <2>3, <3>1, <3>2, <3>3, <3>4, <3>5, Balance, Nothing, Zenon
    <2>4. CASE running[u].pc # "zone"  BY <1>a, <2>1, <2>2, <2>4, Nothing, Zenon
    <2> QED  BY <2>3, <2>4, Zenon
  <1>8. CASE UNCHANGED semVars
    <2>1. UNCHANGED <<name, value, running, ups, lost>>  BY <1>8, Zenon DEF semVars
    <2>2. \A o \in Object : InZone(o)' = InZone(o)  BY <2>1, Zenon DEF InZone
    <2>3. \A o \in Object : SemOK(o)'  BY <2>1, <2>2, Zenon DEF NamedOK, SemOK
    <2> QED  BY <2>1, <2>3, Zenon DEF NamedOK
  <1> QED  BY <1>1, <1>2, <1>3, <1>4, <1>5, <1>6, <1>7, <1>8, Zenon DEF NamedNext

\* The zone is guarded, for any number of users, semaphores and posts of up.c.
THEOREM ZoneGuardedHolds == NamedSpec => []ZoneGuarded
  <1>1. NamedInit => NamedOK
    <2> SUFFICES ASSUME NamedInit PROVE NamedOK  OBVIOUS
    <2>1. /\ value \in [Object -> Int] /\ ups \in [Object -> Nat] /\ lost \in [Object -> Nat]
          /\ \A o \in Object : value[o] = -1 /\ ups[o] = 0 /\ lost[o] = 0
      BY DEF NamedInit
    <2>2. \A o \in Object : SemOK(o)  BY <2>1, Zenon DEF SemOK
    <2>3. running \in [User -> ProgRec] /\ \A u \in User : running[u] = NoProgram
      BY Nothing DEF NamedInit
    <2>4. \A u \in User : OpenOK(running[u], value)  BY <2>3, Nothing, Zenon
    <2>5. name = 0  BY DEF NamedInit
    <2> QED  BY <2>1, <2>2, <2>3, <2>4, <2>5, Zenon DEF NamedOK
  <1>2. NamedOK => ZoneGuarded
    <2> SUFFICES ASSUME NamedOK, NEW o \in Object, value[o] # -1
                 PROVE  /\ ups[o] = 0 => Cardinality(InZone(o)) <= 1
                        /\ value[o] = 0 => InZone(o) # {} \/ lost[o] > 0
                        /\ value[o] + Cardinality(InZone(o)) + lost[o] = 1 + ups[o]
      BY Zenon DEF ZoneGuarded
    <2>1. /\ value[o] \in Int /\ ups[o] \in Nat /\ lost[o] \in Nat
          /\ value[o] >= 0 /\ value[o] + Cardinality(InZone(o)) + lost[o] = 1 + ups[o]
      BY Zenon DEF NamedOK, SemOK
    <2>2. Cardinality(InZone(o)) \in Nat  BY ZoneFinite, Zenon
    <2>3. InZone(o) = {} => Cardinality(InZone(o)) = 0  BY FS_EmptySet, Zenon
    <2>4. PICK c \in Nat : c = Cardinality(InZone(o))  BY <2>2, Zenon
    <2>5. ups[o] = 0 => c <= 1  BY <2>1, <2>4
    <2>6. value[o] = 0 /\ c = 0 => lost[o] > 0  BY <2>1, <2>4
    <2> QED  BY <2>1, <2>3, <2>4, <2>5, <2>6, Zenon
  <1> QED  BY <1>1, <1>2, NamedNextOK, PTL DEF NamedSpec

-----------------------------------------------------------------------------
\* A command of a terminal.
CommandRec == [c : Words \cup {"remove", "none"}, pc : 0..6]

\* What a command has done: it took room or a word; and counted it.
Phase(k) ==
  IF k.pc \in 2..4 THEN (IF k.c \in Words THEN "filling" ELSE "clearing")
  ELSE IF k.pc \in 5..6 THEN (IF k.c \in Words THEN "filled" ELSE "cleared") ELSE "none"
InPhase(ph) == {s \in Terminal : Phase(command[s]) = ph}
Number(ph) == Cardinality(InPhase(ph))

StackTypeOK ==
  /\ free \in Int /\ items \in Int /\ full \in Nat /\ empty \in Nat /\ strays \in Nat
  /\ stackMutex \in {0, 1} /\ usable \in BOOLEAN /\ spilled \in BOOLEAN
  /\ heap \in [0..STACK_ITEMS -> Words \cup {Blank, "mixed"}]
  /\ command \in [Terminal -> CommandRec]
  /\ lifetime \in {"none", "created", "deleted"}

\* The first n rows are words, the others are empty.
Rows(h, n) == \A j \in 0..STACK_ITEMS-1 : h[j] \in IF j < n THEN Text ELSE {Blank}

Unborn ==
  lifetime = "none" =>
    /\ Rows(heap, 0) /\ heap[STACK_ITEMS] = Blank
    /\ \A s \in Terminal : command[s].pc = 0

\* Every token is in a semaphore, with a command, or lost with a killed one.
Tokens ==
  lifetime = "created" =>
    /\ items + free = STACK_ITEMS
    /\ empty + Number("filling") + Number("cleared") <= free
    /\ full + Number("clearing") + Number("filled") <= items
    /\ strays = 0 => /\ empty + Number("filling") + Number("cleared") = free
                     /\ full + Number("clearing") + Number("filled") = items

Critical(s) == command[s].pc \in 3..5

OneInside ==
  lifetime = "created" =>
    /\ \A s, t \in Terminal : Critical(s) /\ Critical(t) => s = t
    /\ \A s \in Terminal : Critical(s) => stackMutex = 0

\* The rows, at every step of the command that has the mutex, until a word that
\* is longer than a row is written.
HeapShape ==
  lifetime = "created" /\ ~spilled =>
    /\ heap[STACK_ITEMS] = Blank
    /\ stackMutex = 1 => Rows(heap, items)
    /\ \A s \in Terminal :
         /\ command[s].pc \in {3, 5} => Rows(heap, items)
         /\ command[s].pc = 4 /\ command[s].c \in Words => Rows(heap, items + 1)
         /\ command[s].pc = 4 /\ command[s].c \notin Words => Rows(heap, items - 1)

\* The inductive invariant of the stack.
StackOK ==
  /\ StackTypeOK /\ (lifetime # "deleted" => usable = TRUE)
  /\ Unborn /\ Tokens /\ OneInside /\ HeapShape

\* The commands of a phase are finitely many.
LEMMA PhaseFinite ==
  ASSUME NEW ph
  PROVE  IsFiniteSet(InPhase(ph)) /\ Number(ph) \in Nat
  <1>1. InPhase(ph) \subseteq Terminal  BY Zenon DEF InPhase
  <1>2. IsFiniteSet(InPhase(ph))  BY <1>1, StackAssumption, FS_Subset, Zenon
  <1> QED  BY <1>2, FS_CardinalityType, Zenon DEF Number

\* A terminal that stays in its phase moves no number.
LEMMA PhaseStays ==
  ASSUME StackTypeOK, NEW s \in Terminal, NEW k,
         command' = [command EXCEPT ![s] = k], Phase(k) = Phase(command[s]), NEW ph
  PROVE  Number(ph)' = Number(ph)
  <1>1. command'[s] = k /\ \A t \in Terminal : t # s => command'[t] = command[t]
    BY Zenon DEF StackTypeOK
  <1>2. \A t \in Terminal : Phase(command'[t]) = Phase(command[t])  BY <1>1, Zenon
  <1>3. InPhase(ph)' = InPhase(ph)  BY <1>2, Zenon DEF InPhase
  <1> QED  BY <1>3, Zenon DEF Number

\* What a step from phase p to phase q adds to a phase.
Delta(ph, p, q) == IF p = q THEN 0 ELSE IF ph = p THEN -1 ELSE IF ph = q THEN 1 ELSE 0

\* A step of one terminal moves it from its phase to another.
LEMMA PhaseStep ==
  ASSUME StackTypeOK, NEW s \in Terminal, NEW k, command' = [command EXCEPT ![s] = k], NEW ph
  PROVE  Number(ph)' = Number(ph) + Delta(ph, Phase(command[s]), Phase(k))
  <1>0. PICK p, q : p = Phase(command[s]) /\ q = Phase(k)  BY Zenon
  <1>1. command'[s] = k /\ \A t \in Terminal : t # s => command'[t] = command[t]
    BY Zenon DEF StackTypeOK
  <1>2. IsFiniteSet(InPhase(ph)) /\ Number(ph) \in Nat  BY PhaseFinite, Zenon
  <1>3. CASE p = q
    <2>1. Number(ph)' = Number(ph) /\ Delta(ph, p, q) = 0  BY <1>0, <1>3, PhaseStays, Zenon DEF Delta
    <2> QED  BY <1>0, <1>2, <2>1
  <1>4. CASE p # q /\ ph = p
    <2>1. s \in InPhase(ph) /\ InPhase(ph)' = InPhase(ph) \ {s}  BY <1>0, <1>1, <1>4, Zenon DEF InPhase
    <2>2. Cardinality(InPhase(ph) \ {s}) = Cardinality(InPhase(ph)) - 1
      BY <1>2, <2>1, FS_RemoveElement, Zenon
    <2>3. Number(ph)' = Number(ph) - 1  BY <2>1, <2>2, Zenon DEF Number
    <2>4. Delta(ph, p, q) = -1  BY <1>4, Zenon DEF Delta
    <2> QED  BY <1>0, <1>2, <2>3, <2>4
  <1>5. CASE p # q /\ ph = q
    <2>1. s \notin InPhase(ph) /\ InPhase(ph)' = InPhase(ph) \cup {s}
      BY <1>0, <1>1, <1>5, Zenon DEF InPhase
    <2>2. Cardinality(InPhase(ph) \cup {s}) = Cardinality(InPhase(ph)) + 1
      BY <1>2, <2>1, FS_AddElement, Zenon
    <2>3. Number(ph)' = Number(ph) + 1  BY <2>1, <2>2, Zenon DEF Number
    <2>4. Delta(ph, p, q) = 1  BY <1>5, Zenon DEF Delta
    <2> QED  BY <1>0, <1>2, <2>3, <2>4
  <1>6. CASE p # q /\ ph # p /\ ph # q
    <2>1. InPhase(ph)' = InPhase(ph)  BY <1>0, <1>1, <1>6, Zenon DEF InPhase
    <2>2. Number(ph)' = Number(ph)  BY <2>1, Zenon DEF Number
    <2>3. Delta(ph, p, q) = 0  BY <1>6, Zenon DEF Delta
    <2> QED  BY <1>0, <1>2, <2>2, <2>3
  <1> QED  BY <1>3, <1>4, <1>5, <1>6, Zenon

\* The elements of the two tuples Command() takes its steps from.
LEMMA PutTuple ==
  ASSUME NEW t, t = <<"wait_empty", "lock", "put", "count_up", "unlock", "post_full">>
  PROVE  /\ t[1] = "wait_empty" /\ t[2] = "lock" /\ t[3] = "put"
         /\ t[4] = "count_up" /\ t[5] = "unlock" /\ t[6] = "post_full"
  OBVIOUS

\* The same for the command that takes a word.
LEMMA TakeTuple ==
  ASSUME NEW t, t = <<"wait_full", "lock", "clear", "count_down", "unlock", "post_empty">>
  PROVE  /\ t[1] = "wait_full" /\ t[2] = "lock" /\ t[3] = "clear"
         /\ t[4] = "count_down" /\ t[5] = "unlock" /\ t[6] = "post_empty"
  OBVIOUS

\* The steps of a command, 0 if none runs.
LEMMA SixSteps ==
  ASSUME NEW n \in 0..6
  PROVE  n = 0 \/ n = 1 \/ n = 2 \/ n = 3 \/ n = 4 \/ n = 5 \/ n = 6
  OBVIOUS

\* The step of a command says which command it is.
LEMMA OpStep ==
  ASSUME StackTypeOK, NEW s \in Terminal
  PROVE  /\ AtOp(s, "wait_empty") => command[s].pc = 1 /\ command[s].c \in Words
         /\ AtOp(s, "wait_full") => command[s].pc = 1 /\ command[s].c \notin Words
         /\ AtOp(s, "lock") => command[s].pc = 2
         /\ AtOp(s, "put") => command[s].pc = 3 /\ command[s].c \in Words
         /\ AtOp(s, "clear") => command[s].pc = 3 /\ command[s].c \notin Words
         /\ AtOp(s, "count_up") => command[s].pc = 4 /\ command[s].c \in Words
         /\ AtOp(s, "count_down") => command[s].pc = 4 /\ command[s].c \notin Words
         /\ AtOp(s, "unlock") => command[s].pc = 5
         /\ AtOp(s, "post_full") => command[s].pc = 6 /\ command[s].c \in Words
         /\ AtOp(s, "post_empty") => command[s].pc = 6 /\ command[s].c \notin Words
  <1>0. PICK n, x : n = command[s].pc /\ x = command[s].c  BY Zenon
  <1>1. n \in 0..6  BY <1>0 DEF StackTypeOK, CommandRec
  <1>2. \A o : AtOp(s, o) => n # 0 /\ Command(x)[n] = o  BY <1>0, Zenon DEF AtOp
  <1>3. n = 0 \/ n = 1 \/ n = 2 \/ n = 3 \/ n = 4 \/ n = 5 \/ n = 6  BY <1>1, SixSteps, Zenon
  <1>4. CASE x \in Words
    <2>1. Command(x) = <<"wait_empty", "lock", "put", "count_up", "unlock", "post_full">>
      BY <1>4, Zenon DEF Command
    <2>2. /\ Command(x)[1] = "wait_empty" /\ Command(x)[2] = "lock" /\ Command(x)[3] = "put"
          /\ Command(x)[4] = "count_up" /\ Command(x)[5] = "unlock" /\ Command(x)[6] = "post_full"
      BY <2>1, PutTuple, Zenon
    <2> QED  BY <1>0, <1>2, <1>3, <1>4, <2>2
  <1>5. CASE x \notin Words
    <2>1. Command(x) = <<"wait_full", "lock", "clear", "count_down", "unlock", "post_empty">>
      BY <1>5, Zenon DEF Command
    <2>2. /\ Command(x)[1] = "wait_full" /\ Command(x)[2] = "lock" /\ Command(x)[3] = "clear"
          /\ Command(x)[4] = "count_down" /\ Command(x)[5] = "unlock" /\ Command(x)[6] = "post_empty"
      BY <2>1, TakeTuple, Zenon
    <2> QED  BY <1>0, <1>2, <1>3, <1>5, <2>2
  <1> QED  BY <1>4, <1>5, Zenon

\* NextOp(): the command of the terminal afterwards.
LEMMA OpNext ==
  ASSUME StackTypeOK, NEW s \in Terminal, command[s].pc # 0, NextOp(s)
  PROVE  \E k \in CommandRec :
           /\ command' = [command EXCEPT ![s] = k]
           /\ command[s].pc = 6 => k.pc = 0
           /\ command[s].pc # 6 => k.pc = command[s].pc + 1 /\ k.c = command[s].c
  <1>1. command[s].pc \in 0..6 /\ command[s].c \in Words \cup {"remove", "none"}
    BY DEF StackTypeOK, CommandRec
  <1>2. CASE command[s].pc = 6
    <2>1. Idle \in CommandRec /\ Idle.pc = 0  BY DEF Idle, CommandRec
    <2>2. command' = [command EXCEPT ![s] = Idle]  BY <1>2, Zenon DEF NextOp, Becoming
    <2> QED  BY <1>2, <2>1, <2>2, Zenon
  <1>3. CASE command[s].pc # 6
    <2>1. PICK k : k = [c |-> command[s].c, pc |-> command[s].pc + 1]  BY Zenon
    <2>2. k \in CommandRec /\ k.pc = command[s].pc + 1 /\ k.c = command[s].c
      BY <1>1, <1>3, <2>1 DEF CommandRec
    <2>3. command' = [command EXCEPT ![s] = k]  BY <1>3, <2>1, Zenon DEF NextOp, Becoming
    <2> QED  BY <1>3, <2>2, <2>3, Zenon
  <1> QED  BY <1>2, <1>3, Zenon

\* The phase of every step.
LEMMA PhaseOf ==
  ASSUME NEW k
  PROVE  /\ k.pc \in {0, 1} => Phase(k) = "none"
         /\ k.pc \in {2, 3, 4} /\ k.c \in Words => Phase(k) = "filling"
         /\ k.pc \in {2, 3, 4} /\ k.c \notin Words => Phase(k) = "clearing"
         /\ k.pc \in {5, 6} /\ k.c \in Words => Phase(k) = "filled"
         /\ k.pc \in {5, 6} /\ k.c \notin Words => Phase(k) = "cleared"
  <1>1. 0 \notin 2..4 /\ 1 \notin 2..4 /\ 0 \notin 5..6 /\ 1 \notin 5..6 /\ 2 \in 2..4 /\ 3 \in 2..4
        /\ 4 \in 2..4 /\ 5 \in 5..6 /\ 6 \in 5..6 /\ 5 \notin 2..4 /\ 6 \notin 2..4
    OBVIOUS
  <1> QED  BY <1>1, Zenon DEF Phase

\* Nothing runs before the stack exists.
LEMMA Born ==
  ASSUME StackOK, NEW s \in Terminal, command[s].pc # 0
  PROVE  lifetime \in {"created", "deleted"}
  BY Zenon DEF StackOK, StackTypeOK, Unborn

\* What a step of a command has to keep.
LEMMA Assemble ==
  ASSUME StackOK, NEW s \in Terminal, command[s].pc # 0, UNCHANGED <<lifetime, usable>>, StackTypeOK',
         lifetime = "created" => Tokens' /\ OneInside' /\ HeapShape'
  PROVE  StackOK'
  <1>1. lifetime \in {"created", "deleted"} /\ lifetime' = lifetime /\ usable' = usable  BY Born, Zenon
  <1>2. lifetime' # "none"  BY <1>1
  <1>3. lifetime' # "deleted" => usable' = TRUE  BY <1>1, Zenon DEF StackOK
  <1>4. Unborn'  BY <1>2, Zenon DEF Unborn
  <1>5. CASE lifetime = "created"  BY <1>3, <1>4, <1>5, Zenon DEF StackOK
  <1>6. CASE lifetime = "deleted"
    <2>1. lifetime' # "created"  BY <1>1, <1>6
    <2>2. Tokens' /\ OneInside' /\ HeapShape'  BY <2>1, Zenon DEF Tokens, OneInside, HeapShape
    <2> QED  BY <1>3, <1>4, <2>2, Zenon DEF StackOK
  <1> QED  BY <1>1, <1>5, <1>6, Zenon

\* A terminal without the mutex touches neither the words nor the others.
LEMMA Outside ==
  ASSUME StackOK, NEW s \in Terminal, NEW k, command' = [command EXCEPT ![s] = k],
         k.pc \in {0, 1, 2, 6}, UNCHANGED <<heap, items, stackMutex, spilled>>, lifetime = "created"
  PROVE  OneInside' /\ HeapShape'
  <1>1. command'[s] = k /\ \A t \in Terminal : t # s => command'[t] = command[t]
    BY Zenon DEF StackOK, StackTypeOK
  <1>2. k.pc \notin 3..5 /\ k.pc \notin {3, 5} /\ k.pc # 4  OBVIOUS
  <1>3. OneInside'
    <2>1. \A t \in Terminal : Critical(t)' => Critical(t)  BY <1>1, <1>2, Zenon DEF Critical
    <2> QED  BY <2>1, Zenon DEF StackOK, OneInside
  <1>4. HeapShape'
    <2>1. /\ heap' = heap /\ items' = items /\ stackMutex' = stackMutex
          /\ spilled' <=> spilled
      OBVIOUS
    <2> SUFFICES ASSUME ~spilled PROVE HeapShape'  BY <2>1, Zenon DEF HeapShape
    <2>2. HeapShape  BY Zenon DEF StackOK
    <2>3. ASSUME NEW t \in Terminal
          PROVE  /\ command'[t].pc \in {3, 5} => Rows(heap, items)
                 /\ command'[t].pc = 4 /\ command'[t].c \in Words => Rows(heap, items + 1)
                 /\ command'[t].pc = 4 /\ command'[t].c \notin Words => Rows(heap, items - 1)
      <3>1. CASE t = s  BY <1>1, <1>2, <3>1, Zenon
      <3>2. CASE t # s  BY <1>1, <2>2, <3>2, Zenon DEF HeapShape
      <3> QED  BY <3>1, <3>2, Zenon
    <2> QED  BY <2>1, <2>2, <2>3, Zenon DEF HeapShape
  <1> QED  BY <1>3, <1>4, Zenon

\* The terminal that has the mutex has it alone.
LEMMA Alone ==
  ASSUME StackOK, NEW s \in Terminal, Critical(s), lifetime = "created"
  PROVE  stackMutex = 0 /\ \A t \in Terminal : t # s => ~Critical(t)
  BY Zenon DEF StackOK, OneInside

\* A terminal inside: the rows are as they have to be at its step.
LEMMA AloneStep ==
  ASSUME StackOK, NEW s \in Terminal, NEW k, command' = [command EXCEPT ![s] = k],
         lifetime = "created", \A t \in Terminal : t # s => ~Critical(t),
         k.pc \in 3..5 => stackMutex' = 0,
         ~spilled' =>
           /\ heap'[STACK_ITEMS] = Blank
           /\ stackMutex' = 1 => Rows(heap', items')
           /\ k.pc \in {3, 5} => Rows(heap', items')
           /\ k.pc = 4 /\ k.c \in Words => Rows(heap', items' + 1)
           /\ k.pc = 4 /\ k.c \notin Words => Rows(heap', items' - 1)
  PROVE  OneInside' /\ HeapShape'
  <1>1. command'[s] = k /\ \A t \in Terminal : t # s => command'[t] = command[t]
    BY Zenon DEF StackOK, StackTypeOK
  <1>2. \A t \in Terminal : t # s => command'[t].pc \notin 3..5  BY <1>1, Zenon DEF Critical
  <1>3. OneInside'
    <2>1. \A t \in Terminal : Critical(t)' => t = s  BY <1>2, Zenon DEF Critical
    <2>2. Critical(s)' => stackMutex' = 0  BY <1>1, Zenon DEF Critical
    <2> QED  BY <2>1, <2>2, Zenon DEF OneInside
  <1>4. HeapShape'
    <2> SUFFICES ASSUME ~spilled' PROVE HeapShape'  BY Zenon DEF HeapShape
    <2>1. ASSUME NEW t \in Terminal
          PROVE  /\ command'[t].pc \in {3, 5} => Rows(heap', items')
                 /\ command'[t].pc = 4 /\ command'[t].c \in Words => Rows(heap', items' + 1)
                 /\ command'[t].pc = 4 /\ command'[t].c \notin Words => Rows(heap', items' - 1)
      <3>1. CASE t = s  BY <1>1, <3>1, Zenon
      <3>2. CASE t # s
        <4>1. 3 \in 3..5 /\ 4 \in 3..5 /\ 5 \in 3..5  OBVIOUS
        <4> QED  BY <1>2, <3>2, <4>1, Zenon
      <3> QED  BY <3>1, <3>2, Zenon
    <2> QED  BY <2>1, Zenon DEF HeapShape
  <1> QED  BY <1>3, <1>4, Zenon

\* The tokens, when nothing but the step of a terminal in its phase changes.
LEMMA TokensStay ==
  ASSUME StackOK, NEW s \in Terminal, NEW k, command' = [command EXCEPT ![s] = k],
         Phase(k) = Phase(command[s]), UNCHANGED <<free, items, full, empty, strays, lifetime>>
  PROVE  Tokens'
  <1>1. \A ph : Number(ph)' = Number(ph)  BY PhaseStays, Zenon DEF StackOK
  <1>2. Tokens  BY Zenon DEF StackOK
  <1> QED  BY <1>1, <1>2, Zenon DEF Tokens

\* The sum of the tokens on one side of the stack.
LEMMA TokenSum ==
  ASSUME NEW x \in Int, NEW y \in Int, NEW f \in Int, NEW g \in Int,
         NEW a \in Int, NEW d \in Int, NEW da \in Int, NEW dd \in Int
  PROVE  /\ x + a + d <= f /\ y + da + dd - g <= x - f => y + (a + da) + (d + dd) <= g
         /\ x + a + d = f /\ y + da + dd - g = x - f => y + (a + da) + (d + dd) = g
  OBVIOUS

\* The tokens, from what a step adds to every phase.
LEMMA TokensFrom ==
  ASSUME StackOK, StackTypeOK', UNCHANGED lifetime,
         NEW s \in Terminal, NEW k, NEW p, NEW q,
         command' = [command EXCEPT ![s] = k], p = Phase(command[s]), q = Phase(k),
         NEW da \in Int, NEW db \in Int, NEW dc \in Int, NEW dd \in Int,
         da = Delta("filling", p, q), db = Delta("filled", p, q),
         dc = Delta("clearing", p, q), dd = Delta("cleared", p, q),
         items' + free' = items + free,
         empty' + da + dd - free' <= empty - free,
         full' + dc + db - items' <= full - items,
         strays' = 0 => /\ strays = 0
                        /\ empty' + da + dd - free' = empty - free
                        /\ full' + dc + db - items' = full - items
  PROVE  Tokens'
  <1> SUFFICES ASSUME lifetime = "created"
               PROVE  /\ items' + free' = STACK_ITEMS
                      /\ empty' + Number("filling")' + Number("cleared")' <= free'
                      /\ full' + Number("clearing")' + Number("filled")' <= items'
                      /\ strays' = 0 => /\ empty' + Number("filling")' + Number("cleared")' = free'
                                        /\ full' + Number("clearing")' + Number("filled")' = items'
    BY Zenon DEF Tokens
  <1>1. PICK a \in Int, b \in Int, c \in Int, d \in Int :
          a = Number("filling") /\ b = Number("filled") /\ c = Number("clearing") /\ d = Number("cleared")
    <2>1. \A ph : Number(ph) \in Int  BY PhaseFinite
    <2> QED  BY <2>1, Zenon
  <1>2. /\ items + free = STACK_ITEMS /\ empty + a + d <= free /\ full + c + b <= items
        /\ strays = 0 => empty + a + d = free /\ full + c + b = items
    BY <1>1, Zenon DEF StackOK, Tokens
  <1>3. \A ph : Number(ph)' = Number(ph) + Delta(ph, p, q)  BY PhaseStep, Zenon DEF StackOK
  <1>4. /\ Number("filling")' = a + da /\ Number("filled")' = b + db
        /\ Number("clearing")' = c + dc /\ Number("cleared")' = d + dd
    BY <1>1, <1>3, Zenon
  <1>5. /\ free \in Int /\ items \in Int /\ full \in Int /\ empty \in Int
        /\ free' \in Int /\ items' \in Int /\ full' \in Int /\ empty' \in Int
    BY DEF StackOK, StackTypeOK
  <1>6. /\ empty' + (a + da) + (d + dd) <= free'
        /\ strays' = 0 => empty' + (a + da) + (d + dd) = free'
    <2>1. /\ empty + a + d <= free /\ empty' + da + dd - free' <= empty - free => empty' + (a + da) + (d + dd) <= free'
          /\ empty + a + d = free /\ empty' + da + dd - free' = empty - free => empty' + (a + da) + (d + dd) = free'
      BY <1>5, TokenSum
    <2> QED  BY <1>2, <2>1, Zenon
  <1>7. /\ full' + (c + dc) + (b + db) <= items'
        /\ strays' = 0 => full' + (c + dc) + (b + db) = items'
    <2>1. /\ full + c + b <= items /\ full' + dc + db - items' <= full - items => full' + (c + dc) + (b + db) <= items'
          /\ full + c + b = items /\ full' + dc + db - items' = full - items => full' + (c + dc) + (b + db) = items'
      BY <1>5, TokenSum
    <2> QED  BY <1>2, <2>1, Zenon
  <1>8. items' + free' = STACK_ITEMS  BY <1>2, Zenon
  <1> QED  BY <1>4, <1>6, <1>7, <1>8, Zenon

\* Take() and Give(): the semaphores.
LEMMA TakeGiveOK ==
  ASSUME StackOK, NEW s \in Terminal, Take(s) \/ Give(s)
  PROVE  StackOK'
  <1>1. PICK o \in {"wait_empty", "wait_full", "post_full", "post_empty"} : AtOp(s, o)
    BY Zenon DEF Take, Give
  <1>2. /\ command[s].pc \in {1, 6} /\ command[s].pc # 0 /\ StackTypeOK
        /\ o \in {"wait_empty", "wait_full"} <=> command[s].pc = 1
        /\ o \in {"wait_empty", "post_full"} <=> command[s].c \in Words
    BY <1>1, OpStep DEF StackOK
  <1>3. PICK k \in CommandRec :
          /\ command' = [command EXCEPT ![s] = k]
          /\ command[s].pc = 6 => k.pc = 0
          /\ command[s].pc # 6 => k.pc = command[s].pc + 1 /\ k.c = command[s].c
    BY <1>2, OpNext, Zenon DEF Take, Give
  <1>4. UNCHANGED <<free, items, stackMutex, heap, lifetime, usable, strays, spilled>>  BY Zenon DEF Take, Give
  <1>5. /\ o = "wait_empty" => empty > 0 /\ empty' = empty - 1 /\ full' = full
        /\ o = "wait_full" => full > 0 /\ full' = full - 1 /\ empty' = empty
        /\ o = "post_full" => full' = full + 1 /\ empty' = empty
        /\ o = "post_empty" => empty' = empty + 1 /\ full' = full
    <2>1. \A x : AtOp(s, x) => x = o  BY <1>1, Zenon DEF AtOp
    <2>2. \/ o = "wait_empty" /\ empty > 0 /\ empty' = empty - 1 /\ full' = full
          \/ o = "wait_full" /\ full > 0 /\ full' = full - 1 /\ empty' = empty
          \/ o = "post_full" /\ full' = full + 1 /\ empty' = empty
          \/ o = "post_empty" /\ empty' = empty + 1 /\ full' = full
      BY <2>1, Zenon DEF Take, Give
    <2> QED  BY <2>2, Zenon
  <1>6. full' \in Nat /\ empty' \in Nat  BY <1>2, <1>5 DEF StackTypeOK
  <1>7. command' \in [Terminal -> CommandRec]  BY <1>2, <1>3 DEF StackTypeOK
  <1>8. StackTypeOK'  BY <1>2, <1>4, <1>6, <1>7, Zenon DEF StackTypeOK
  <1>9. /\ command[s].pc = 1 => k.pc = 2 /\ k.c = command[s].c
        /\ command[s].pc = 6 => k.pc = 0
    BY <1>3
  <1>10. lifetime = "created" => OneInside' /\ HeapShape'
    <2>1. k.pc \in {0, 1, 2, 6}  BY <1>2, <1>9, Zenon
    <2> QED  BY <1>3, <1>4, <2>1, Outside, Zenon
  <1>11. Tokens'
    <2>0. /\ free \in Int /\ items \in Int /\ full \in Int /\ empty \in Int
          /\ free' = free /\ items' = items /\ strays' = strays
          /\ -1 \in Int /\ 0 \in Int /\ 1 \in Int
      BY <1>2, <1>4 DEF StackTypeOK
    <2>1. CASE o = "wait_empty"
      <3>1. Phase(command[s]) = "none" /\ Phase(k) = "filling"  BY <1>2, <1>9, <2>1, PhaseOf, Zenon
      <3>2. /\ Delta("filling", "none", "filling") = 1 /\ Delta("filled", "none", "filling") = 0
            /\ Delta("clearing", "none", "filling") = 0 /\ Delta("cleared", "none", "filling") = 0
        BY DEF Delta
      <3>3. empty' + 1 + 0 - free' = empty - free /\ full' + 0 + 0 - items' = full - items
        BY <1>5, <2>0, <2>1
      <3>4. /\ empty' + 1 + 0 - free' <= empty - free /\ full' + 0 + 0 - items' <= full - items
        BY <1>5, <2>0, <2>1
      <3> QED  BY <1>3, <1>4, <1>8, <2>0, <3>1, <3>2, <3>3, <3>4, TokensFrom, Zenon
    <2>2. CASE o = "wait_full"
      <3>1. Phase(command[s]) = "none" /\ Phase(k) = "clearing"  BY <1>2, <1>9, <2>2, PhaseOf, Zenon
      <3>2. /\ Delta("filling", "none", "clearing") = 0 /\ Delta("filled", "none", "clearing") = 0
            /\ Delta("clearing", "none", "clearing") = 1 /\ Delta("cleared", "none", "clearing") = 0
        BY DEF Delta
      <3>3. empty' + 0 + 0 - free' = empty - free /\ full' + 1 + 0 - items' = full - items
        BY <1>5, <2>0, <2>2
      <3>4. /\ empty' + 0 + 0 - free' <= empty - free /\ full' + 1 + 0 - items' <= full - items
        BY <1>5, <2>0, <2>2
      <3> QED  BY <1>3, <1>4, <1>8, <2>0, <3>1, <3>2, <3>3, <3>4, TokensFrom, Zenon
    <2>3. CASE o = "post_full"
      <3>1. Phase(command[s]) = "filled" /\ Phase(k) = "none"  BY <1>2, <1>9, <2>3, PhaseOf, Zenon
      <3>2. /\ Delta("filling", "filled", "none") = 0 /\ Delta("filled", "filled", "none") = -1
            /\ Delta("clearing", "filled", "none") = 0 /\ Delta("cleared", "filled", "none") = 0
        BY DEF Delta
      <3>3. empty' + 0 + 0 - free' = empty - free /\ full' + 0 + (-1) - items' = full - items
        BY <1>5, <2>0, <2>3
      <3>4. /\ empty' + 0 + 0 - free' <= empty - free /\ full' + 0 + (-1) - items' <= full - items
        BY <1>5, <2>0, <2>3
      <3> QED  BY <1>3, <1>4, <1>8, <2>0, <3>1, <3>2, <3>3, <3>4, TokensFrom, Zenon
    <2>4. CASE o = "post_empty"
      <3>1. Phase(command[s]) = "cleared" /\ Phase(k) = "none"  BY <1>2, <1>9, <2>4, PhaseOf, Zenon
      <3>2. /\ Delta("filling", "cleared", "none") = 0 /\ Delta("filled", "cleared", "none") = 0
            /\ Delta("clearing", "cleared", "none") = 0 /\ Delta("cleared", "cleared", "none") = -1
        BY DEF Delta
      <3>3. empty' + 0 + (-1) - free' = empty - free /\ full' + 0 + 0 - items' = full - items
        BY <1>5, <2>0, <2>4
      <3>4. /\ empty' + 0 + (-1) - free' <= empty - free /\ full' + 0 + 0 - items' <= full - items
        BY <1>5, <2>0, <2>4
      <3> QED  BY <1>3, <1>4, <1>8, <2>0, <3>1, <3>2, <3>3, <3>4, TokensFrom, Zenon
    <2> QED  BY <2>1, <2>2, <2>3, <2>4, Zenon
  <1> QED  BY <1>2, <1>4, <1>8, <1>10, <1>11, Assemble, Zenon

\* LockStack() and UnlockStack(): the mutex.
LEMMA MutexKept ==
  ASSUME StackOK, NEW s \in Terminal, LockStack(s) \/ UnlockStack(s)
  PROVE  StackOK'
  <1>1. PICK o \in {"lock", "unlock"} :
          /\ AtOp(s, o)
          /\ o = "lock" => LockStack(s)
          /\ o = "unlock" => UnlockStack(s)
    BY Zenon DEF LockStack, UnlockStack
  <1>2. /\ command[s].pc # 0 /\ StackTypeOK
        /\ o = "lock" => command[s].pc = 2
        /\ o = "unlock" => command[s].pc = 5
    BY <1>1, OpStep DEF StackOK
  <1>3. PICK k \in CommandRec :
          /\ command' = [command EXCEPT ![s] = k]
          /\ command[s].pc # 6 => k.pc = command[s].pc + 1 /\ k.c = command[s].c
    BY <1>2, OpNext, Zenon DEF LockStack, UnlockStack
  <1>4. UNCHANGED <<free, items, full, empty, heap, lifetime, usable, strays, spilled>>
    BY Zenon DEF LockStack, UnlockStack
  <1>5. /\ o = "lock" => IF usable THEN stackMutex = 1 /\ stackMutex' = 0 ELSE stackMutex' = stackMutex
        /\ o = "unlock" => stackMutex' = IF usable THEN 1 ELSE stackMutex
    BY <1>1, Zenon DEF LockStack, UnlockStack
  <1>6. stackMutex' \in {0, 1}  BY <1>2, <1>5, Zenon DEF StackTypeOK
  <1>7. command' \in [Terminal -> CommandRec]  BY <1>2, <1>3 DEF StackTypeOK
  <1>8. StackTypeOK'  BY <1>2, <1>4, <1>6, <1>7, Zenon DEF StackTypeOK
  <1>9. /\ o = "lock" => k.pc = 3 /\ k.c = command[s].c
        /\ o = "unlock" => k.pc = 6 /\ k.c = command[s].c
    BY <1>2, <1>3
  <1>10. Phase(k) = Phase(command[s])  BY <1>1, <1>2, <1>9, PhaseOf, Zenon
  <1>11. Tokens'  BY <1>3, <1>4, <1>10, TokensStay, Zenon
  <1>12. ASSUME lifetime = "created"  PROVE OneInside' /\ HeapShape'
    <2>0. /\ heap' = heap /\ items' = items
          /\ ~spilled' => ~spilled /\ heap[STACK_ITEMS] = Blank
      BY <1>4, <1>12, Zenon DEF StackOK, HeapShape
    <2>u. usable = TRUE
      <3>1. lifetime # "deleted"  BY <1>12
      <3> QED  BY <3>1, Zenon DEF StackOK
    <2>1. CASE o = "lock"
      <3>1. stackMutex = 1 /\ stackMutex' = 0  BY <1>5, <2>u, <2>1, Zenon
      <3>2. stackMutex # 0 /\ stackMutex' # 1  BY <3>1
      <3>3. \A t \in Terminal : ~Critical(t)  BY <1>12, <3>2, Zenon DEF StackOK, OneInside
      <3>4. ~spilled' => Rows(heap, items)  BY <1>12, <2>0, <3>1, Zenon DEF StackOK, HeapShape
      <3>5. k.pc = 3 /\ k.pc # 4  BY <1>9, <2>1
      <3> QED  BY <1>3, <1>12, <2>0, <3>1, <3>2, <3>3, <3>4, <3>5, AloneStep, Zenon
    <2>2. CASE o = "unlock"
      <3>1. stackMutex' = 1  BY <1>5, <2>u, <2>2, Zenon
      <3>2. command[s].pc = 5 /\ command[s].pc \in {3, 5} /\ Critical(s)  BY <1>2, <2>2 DEF Critical
      <3>3. \A t \in Terminal : t # s => ~Critical(t)  BY <1>12, <3>2, Alone, Zenon
      <3>4. ~spilled' => Rows(heap, items)  BY <1>12, <2>0, <3>2, Zenon DEF StackOK, HeapShape
      <3>5. k.pc \notin 3..5 /\ k.pc # 4  BY <1>9, <2>2
      <3> QED  BY <1>3, <1>12, <2>0, <3>1, <3>3, <3>4, <3>5, AloneStep, Zenon
    <2> QED  BY <2>1, <2>2, Zenon
  <1> QED  BY <1>2, <1>4, <1>8, <1>11, <1>12, Assemble, Zenon

\* The counts stay between 0 and ITEMS, and a command that has a token finds
\* the row that it needs.
LEMMA RoomLeft ==
  ASSUME StackOK, lifetime = "created"
  PROVE  /\ items \in 0..STACK_ITEMS /\ items + free = STACK_ITEMS /\ full <= items /\ empty <= free
         /\ \A s \in Terminal : Phase(command[s]) = "filling" => items < STACK_ITEMS
         /\ \A s \in Terminal : Phase(command[s]) = "clearing" => items > 0
  <1>1. PICK a \in Nat, b \in Nat, c \in Nat, d \in Nat :
          a = Number("filling") /\ b = Number("filled") /\ c = Number("clearing") /\ d = Number("cleared")
    BY PhaseFinite, Zenon
  <1>2. items + free = STACK_ITEMS /\ empty + a + d <= free /\ full + c + b <= items
    BY <1>1, Zenon DEF StackOK, Tokens
  <1>3. free \in Int /\ items \in Int /\ full \in Nat /\ empty \in Nat /\ STACK_ITEMS \in Nat
    BY StackAssumption, Zenon DEF StackOK, StackTypeOK
  <1>4. items \in 0..STACK_ITEMS /\ full <= items /\ empty <= free  BY <1>2, <1>3
  <1>5. (a > 0 => items < STACK_ITEMS) /\ (c > 0 => items > 0)  BY <1>2, <1>3
  <1>6. ASSUME NEW s \in Terminal, NEW ph, Phase(command[s]) = ph  PROVE Number(ph) > 0
    <2>1. s \in InPhase(ph) /\ IsFiniteSet(InPhase(ph)) /\ Number(ph) \in Nat
      BY <1>6, PhaseFinite, Zenon DEF InPhase
    <2>2. Number(ph) # 0  BY <2>1, FS_EmptySet, Zenon DEF Number
    <2> QED  BY <2>1, <2>2
  <1> QED  BY <1>1, <1>2, <1>4, <1>5, <1>6, Zenon

\* Put(): the word goes to the row after the last one, or the last one is blanked.
LEMMA PutOK ==
  ASSUME StackOK, NEW s \in Terminal, Put(s)
  PROVE  StackOK'
  <1>1. PICK o \in {"put", "clear"} :
          /\ AtOp(s, o)
          /\ o = "put" => Fill(command[s].c)
          /\ o = "clear" => heap' = [heap EXCEPT ![items - 1] = Blank] /\ spilled' = spilled
    BY Zenon DEF Put
  <1>2. /\ command[s].pc = 3 /\ StackTypeOK
        /\ o = "put" <=> command[s].c \in Words
    BY <1>1, OpStep DEF StackOK
  <1>z. command[s].pc # 0 /\ command[s].pc # 6  BY <1>2
  <1>3. PICK k \in CommandRec :
          /\ command' = [command EXCEPT ![s] = k]
          /\ command[s].pc # 6 => k.pc = command[s].pc + 1 /\ k.c = command[s].c
    BY <1>2, <1>z, OpNext, Zenon DEF Put
  <1>4. UNCHANGED <<free, items, full, empty, stackMutex, lifetime, usable, strays>>
    BY Zenon DEF Put
  <1>5. heap' \in [0..STACK_ITEMS -> Words \cup {Blank, "mixed"}] /\ spilled' \in BOOLEAN
    <2>0. heap \in [0..STACK_ITEMS -> Words \cup {Blank, "mixed"}] /\ spilled \in BOOLEAN
      BY <1>2, Zenon DEF StackTypeOK
    <2>1. CASE o = "clear"  BY <1>1, <2>0, <2>1
    <2>2. CASE o = "put" /\ command[s].c \in Text
      <3>1. heap' = [heap EXCEPT ![items] = Over(command[s].c, heap[items])] /\ spilled' = spilled
        BY <1>1, <2>2, Zenon DEF Fill
      <3>2. Over(command[s].c, heap[items]) \in Words \cup {"mixed"}  BY <1>2, <2>2, Zenon DEF Over
      <3> QED  BY <2>0, <3>1, <3>2, Zenon
    <2>3. CASE o = "put" /\ command[s].c \notin Text
      <3>1. /\ \E n : heap' = [j \in 0..STACK_ITEMS |->
                     IF j = items THEN command[s].c ELSE IF j \in items+1..n THEN "mixed" ELSE heap[j]]
            /\ spilled' = TRUE
        BY <1>1, <2>3, Zenon DEF Fill
      <3>2. command[s].c \in Words  BY <1>2, <2>3
      <3> QED  BY <2>0, <3>1, <3>2
    <2> QED  BY <2>1, <2>2, <2>3
  <1>6. ASSUME ~spilled'  PROVE ~spilled /\ (o = "put" => command[s].c \in Text)
    <2>1. CASE o = "clear"
      <3>1. spilled' = spilled  BY <1>1, <2>1, Zenon
      <3> QED  BY <1>6, <2>1, <3>1
    <2>2. CASE o = "put" /\ command[s].c \in Text
      <3>1. spilled' = spilled  BY <1>1, <2>2, Zenon DEF Fill
      <3> QED  BY <1>6, <2>2, <3>1
    <2>3. CASE o = "put" /\ command[s].c \notin Text
      <3>1. spilled' = TRUE  BY <1>1, <2>3, Zenon DEF Fill
      <3> QED  BY <1>6, <3>1
    <2> QED  BY <2>1, <2>2, <2>3, Zenon
  <1>7. command' \in [Terminal -> CommandRec]  BY <1>2, <1>3 DEF StackTypeOK
  <1>8. StackTypeOK'  BY <1>2, <1>4, <1>5, <1>7, Zenon DEF StackTypeOK
  <1>9. k.pc = 4 /\ k.c = command[s].c  BY <1>2, <1>3
  <1>10. Phase(k) = Phase(command[s])  BY <1>2, <1>9, PhaseOf
  <1>11. Tokens'  BY <1>3, <1>4, <1>10, TokensStay, Zenon
  <1>12. ASSUME lifetime = "created"  PROVE OneInside' /\ HeapShape'
    <2>1. command[s].pc \in {3, 5} /\ Critical(s)  BY <1>2 DEF Critical
    <2>2. stackMutex = 0 /\ \A t \in Terminal : t # s => ~Critical(t)  BY <1>12, <2>1, Alone, Zenon
    <2>3. stackMutex' = 0 /\ stackMutex' # 1 /\ items' = items  BY <1>4, <2>2
    <2>5. /\ items \in 0..STACK_ITEMS /\ STACK_ITEMS \in Nat
          /\ heap \in [0..STACK_ITEMS -> Words \cup {Blank, "mixed"}]
      BY <1>2, <1>12, RoomLeft, StackAssumption, Zenon DEF StackTypeOK
    <2>6. k.pc \notin {3, 5}  BY <1>9
    <2>7. CASE o = "put"
      <3>1. items < STACK_ITEMS
        <4>1. Phase(command[s]) = "filling"  BY <1>2, <2>7, PhaseOf
        <4> QED  BY <1>12, <4>1, RoomLeft, Zenon
      <3>2. items \in 0..STACK_ITEMS-1 /\ ~(items < items)  BY <2>5, <3>1
      <3>3. ASSUME ~spilled'  PROVE heap'[STACK_ITEMS] = Blank /\ Rows(heap', items + 1)
        <4>1. /\ command[s].c \in Text /\ ~spilled
              /\ heap' = [heap EXCEPT ![items] = Over(command[s].c, heap[items])]
          BY <1>1, <1>6, <2>7, <3>3, Zenon DEF Fill
        <4>2. Rows(heap, items) /\ heap[STACK_ITEMS] = Blank
          BY <1>12, <2>1, <4>1, Zenon DEF StackOK, HeapShape
        <4>3. heap[items] = Blank  BY <3>2, <4>2, Zenon DEF Rows
        <4>4. heap' = [heap EXCEPT ![items] = command[s].c]  BY <4>1, <4>3, Zenon DEF Over
        <4>5. heap'[STACK_ITEMS] = Blank  BY <2>5, <3>1, <4>2, <4>4
        <4>6. ASSUME NEW j \in 0..STACK_ITEMS-1
              PROVE  heap'[j] \in IF j < items + 1 THEN Text ELSE {Blank}
          <5>1. heap[j] \in IF j < items THEN Text ELSE {Blank}  BY <4>2, Zenon DEF Rows
          <5>2. CASE j = items  BY <2>5, <4>1, <4>4, <5>2
          <5>3. CASE j # items  BY <2>5, <4>4, <5>1, <5>3
          <5> QED  BY <5>2, <5>3, Zenon
        <4> QED  BY <4>5, <4>6, Zenon DEF Rows
      <3>8. k.c \in Words  BY <1>2, <1>9, <2>7, Zenon
      <3> QED  BY <1>3, <1>12, <2>2, <2>3, <2>6, <3>3, <3>8, AloneStep, Zenon
    <2>8. CASE o = "clear"
      <3>0. command[s].c \notin Words /\ k.c \notin Words  BY <1>2, <1>9, <2>8
      <3>1. items > 0
        <4>1. Phase(command[s]) = "clearing"  BY <1>2, <3>0, PhaseOf
        <4> QED  BY <1>12, <4>1, RoomLeft, Zenon
      <3>3. ASSUME ~spilled'  PROVE heap'[STACK_ITEMS] = Blank /\ Rows(heap', items - 1)
        <4>1. ~spilled /\ heap' = [heap EXCEPT ![items - 1] = Blank]  BY <1>1, <1>6, <2>8, <3>3, Zenon
        <4>2. Rows(heap, items) /\ heap[STACK_ITEMS] = Blank
          BY <1>12, <2>1, <4>1, Zenon DEF StackOK, HeapShape
        <4>5. heap'[STACK_ITEMS] = Blank  BY <2>5, <3>1, <4>1, <4>2
        <4>6. ASSUME NEW j \in 0..STACK_ITEMS-1
              PROVE  heap'[j] \in IF j < items - 1 THEN Text ELSE {Blank}
          <5>1. heap[j] \in IF j < items THEN Text ELSE {Blank}  BY <4>2, Zenon DEF Rows
          <5>2. CASE j = items - 1  BY <2>5, <4>1, <5>2
          <5>3. CASE j # items - 1  BY <2>5, <4>1, <5>1, <5>3
          <5> QED  BY <5>2, <5>3, Zenon
        <4> QED  BY <4>5, <4>6, Zenon DEF Rows
      <3> QED  BY <1>3, <1>12, <2>2, <2>3, <2>6, <3>0, <3>3, AloneStep, Zenon
    <2> QED  BY <2>7, <2>8, Zenon
  <1> QED  BY <1>z, <1>4, <1>8, <1>11, <1>12, Assemble, Zenon

\* CountWords(): the word or the room is counted.
LEMMA CountOK ==
  ASSUME StackOK, NEW s \in Terminal, CountWords(s)
  PROVE  StackOK'
  <1>1. PICK o \in {"count_up", "count_down"} :
          /\ AtOp(s, o)
          /\ o = "count_up" => free' = free - 1 /\ items' = items + 1
          /\ o = "count_down" => free' = free + 1 /\ items' = items - 1
    BY Zenon DEF CountWords
  <1>2. /\ command[s].pc = 4 /\ StackTypeOK
        /\ o = "count_up" <=> command[s].c \in Words
    BY <1>1, OpStep DEF StackOK
  <1>z. command[s].pc # 0 /\ command[s].pc # 6  BY <1>2
  <1>3. PICK k \in CommandRec :
          /\ command' = [command EXCEPT ![s] = k]
          /\ command[s].pc # 6 => k.pc = command[s].pc + 1 /\ k.c = command[s].c
    BY <1>2, <1>z, OpNext, Zenon DEF CountWords
  <1>4. UNCHANGED <<full, empty, stackMutex, heap, lifetime, usable, strays, spilled>>  BY Zenon DEF CountWords
  <1>5. free' \in Int /\ items' \in Int  BY <1>1, <1>2 DEF StackTypeOK
  <1>7. command' \in [Terminal -> CommandRec]  BY <1>2, <1>3 DEF StackTypeOK
  <1>8. StackTypeOK'  BY <1>2, <1>4, <1>5, <1>7, Zenon DEF StackTypeOK
  <1>9. k.pc = 5 /\ k.c = command[s].c  BY <1>2, <1>3
  <1>11. Tokens'
    <2>0. /\ free \in Int /\ items \in Int /\ full \in Int /\ empty \in Int
          /\ full' = full /\ empty' = empty /\ strays' = strays
          /\ -1 \in Int /\ 0 \in Int /\ 1 \in Int
      BY <1>2, <1>4 DEF StackTypeOK
    <2>1. items' + free' = items + free  BY <1>1, <2>0
    <2>2. CASE o = "count_up"
      <3>1. Phase(command[s]) = "filling" /\ Phase(k) = "filled"  BY <1>2, <1>9, <2>2, PhaseOf, Zenon
      <3>2. /\ Delta("filling", "filling", "filled") = -1 /\ Delta("filled", "filling", "filled") = 1
            /\ Delta("clearing", "filling", "filled") = 0 /\ Delta("cleared", "filling", "filled") = 0
        BY DEF Delta
      <3>3. empty' + (-1) + 0 - free' = empty - free /\ full' + 0 + 1 - items' = full - items
        BY <1>1, <2>0, <2>2
      <3>4. empty' + (-1) + 0 - free' <= empty - free /\ full' + 0 + 1 - items' <= full - items
        BY <1>1, <2>0, <2>2
      <3> QED  BY <1>3, <1>4, <1>8, <2>0, <2>1, <3>1, <3>2, <3>3, <3>4, TokensFrom, Zenon
    <2>3. CASE o = "count_down"
      <3>1. Phase(command[s]) = "clearing" /\ Phase(k) = "cleared"  BY <1>2, <1>9, <2>3, PhaseOf, Zenon
      <3>2. /\ Delta("filling", "clearing", "cleared") = 0 /\ Delta("filled", "clearing", "cleared") = 0
            /\ Delta("clearing", "clearing", "cleared") = -1 /\ Delta("cleared", "clearing", "cleared") = 1
        BY DEF Delta
      <3>3. empty' + 0 + 1 - free' = empty - free /\ full' + (-1) + 0 - items' = full - items
        BY <1>1, <2>0, <2>3
      <3>4. empty' + 0 + 1 - free' <= empty - free /\ full' + (-1) + 0 - items' <= full - items
        BY <1>1, <2>0, <2>3
      <3> QED  BY <1>3, <1>4, <1>8, <2>0, <2>1, <3>1, <3>2, <3>3, <3>4, TokensFrom, Zenon
    <2> QED  BY <2>2, <2>3, Zenon
  <1>12. ASSUME lifetime = "created"  PROVE OneInside' /\ HeapShape'
    <2>1. Critical(s)  BY <1>2 DEF Critical
    <2>2. stackMutex = 0 /\ \A t \in Terminal : t # s => ~Critical(t)  BY <1>12, <2>1, Alone, Zenon
    <2>3. stackMutex' = 0 /\ stackMutex' # 1 /\ heap' = heap  BY <1>4, <2>2
    <2>0. ~spilled' => ~spilled  BY <1>4, Zenon
    <2>4. ~spilled' => heap'[STACK_ITEMS] = Blank  BY <1>12, <2>0, <2>3, Zenon DEF StackOK, HeapShape
    <2>5. ASSUME ~spilled'  PROVE Rows(heap', items')
      <3>1. /\ o = "count_up" => Rows(heap, items + 1) /\ items' = items + 1
            /\ o = "count_down" => Rows(heap, items - 1) /\ items' = items - 1
        <4>1. o = "count_down" => command[s].c \notin Words  BY <1>2
        <4> QED  BY <1>1, <1>2, <1>12, <2>0, <2>5, <4>1, Zenon DEF StackOK, HeapShape
      <3> QED  BY <2>3, <3>1, Zenon
    <2>6. k.pc # 4  BY <1>9
    <2> QED  BY <1>3, <1>12, <2>2, <2>3, <2>4, <2>5, <2>6, AloneStep, Zenon
  <1> QED  BY <1>z, <1>4, <1>8, <1>11, <1>12, Assemble, Zenon

\* KillCommand(): a token may be lost, and with it the mutex.
LEMMA KillOK ==
  ASSUME StackOK, NEW s \in Terminal, KillCommand(s)
  PROVE  StackOK'
  <1>1. /\ command' = [command EXCEPT ![s] = Idle] /\ command[s].pc # 0
        /\ strays' = strays + (IF command[s].pc > 1 THEN 1 ELSE 0)
        /\ UNCHANGED <<free, items, stackMutex, full, empty, heap, lifetime, usable, spilled>>
    BY Zenon DEF KillCommand, Becoming
  <1>2. StackTypeOK /\ command[s] \in CommandRec  BY Zenon DEF StackOK, StackTypeOK
  <1>3. Idle \in CommandRec /\ Idle.pc = 0 /\ Phase(Idle) = "none"
    <2>1. Idle \in CommandRec /\ Idle.pc = 0  BY DEF Idle, CommandRec
    <2> QED  BY <2>1, PhaseOf, Zenon
  <1>4. command[s].pc = 1 \/ command[s].pc \in 2..6  BY <1>1, <1>2 DEF CommandRec
  <1>5. /\ command[s].pc = 1 => strays' = strays
        /\ command[s].pc \in 2..6 => strays' = strays + 1
        /\ strays' \in Nat /\ strays \in Nat
    <2>1. strays \in Nat  BY <1>2, Zenon DEF StackTypeOK
    <2>2. command[s].pc = 1 => ~(command[s].pc > 1)  OBVIOUS
    <2>3. command[s].pc \in 2..6 => command[s].pc > 1  OBVIOUS
    <2>4. /\ command[s].pc = 1 => strays' = strays + 0
          /\ command[s].pc \in 2..6 => strays' = strays + 1
      BY <1>1, <2>2, <2>3, Zenon
    <2> QED  BY <1>4, <2>1, <2>4
  <1>7. command' \in [Terminal -> CommandRec]  BY <1>1, <1>2, <1>3 DEF StackTypeOK
  <1>8. StackTypeOK'  BY <1>1, <1>2, <1>5, <1>7, Zenon DEF StackTypeOK
  <1>9. Tokens'
    <2>1. CASE command[s].pc = 1
      <3>1. Phase(command[s]) = Phase(Idle)  BY <1>3, <2>1, PhaseOf, Zenon
      <3> QED  BY <1>1, <1>5, <2>1, <3>1, TokensStay, Zenon
    <2>2. CASE command[s].pc \in 2..6
      <3>1. PICK p : p = Phase(command[s])  BY Zenon
      <3>2. ASSUME NEW ph, ph # "none"  PROVE Delta(ph, p, "none") \in {-1, 0}
        BY <3>2, Zenon DEF Delta
      <3>3. PICK da \in {-1, 0}, db \in {-1, 0}, dc \in {-1, 0}, dd \in {-1, 0} :
              /\ da = Delta("filling", p, "none") /\ db = Delta("filled", p, "none")
              /\ dc = Delta("clearing", p, "none") /\ dd = Delta("cleared", p, "none")
        <4>1. "filling" # "none" /\ "filled" # "none" /\ "clearing" # "none" /\ "cleared" # "none"
          OBVIOUS
        <4> QED  BY <3>2, <4>1, Zenon
      <3>4. da \in Int /\ db \in Int /\ dc \in Int /\ dd \in Int /\ strays' # 0
        BY <1>5, <2>2, <3>3
      <3>5. /\ free \in Int /\ items \in Int /\ full \in Int /\ empty \in Int
            /\ free' = free /\ items' = items /\ full' = full /\ empty' = empty
        BY <1>1, <1>2 DEF StackTypeOK
      <3>6. empty' + da + dd - free' <= empty - free /\ full' + dc + db - items' <= full - items
        BY <3>3, <3>5
      <3>7. items' + free' = items + free  BY <3>5, Zenon
      <3> QED  BY <1>1, <1>3, <1>8, <3>1, <3>3, <3>4, <3>6, <3>7, TokensFrom, Zenon
    <2> QED  BY <1>4, <2>1, <2>2, Zenon
  <1>10. lifetime = "created" => OneInside' /\ HeapShape'
    <2>1. Idle.pc \in {0, 1, 2, 6}  BY <1>3, Zenon
    <2> QED  BY <1>1, <2>1, Outside, Zenon
  <1> QED  BY <1>1, <1>8, <1>9, <1>10, Assemble, Zenon

\* Run(): a new command.
LEMMA RunOK ==
  ASSUME StackOK, NEW s \in Terminal, NEW c \in Words \cup {"remove"}, Run(s, c)
  PROVE  StackOK'
  <1>1. PICK k : k = [c |-> c, pc |-> 1]  BY Zenon
  <1>2. /\ command[s] = Idle /\ lifetime = "created" /\ command' = [command EXCEPT ![s] = k]
        /\ UNCHANGED <<free, items, stackMutex, full, empty, heap, lifetime, usable, strays, spilled>>
    BY <1>1, Zenon DEF Run, Becoming
  <1>3. k \in CommandRec /\ k.pc = 1 /\ Idle.pc = 0  BY <1>1 DEF CommandRec, Idle
  <1>4. StackTypeOK  BY Zenon DEF StackOK
  <1>5. command' \in [Terminal -> CommandRec]  BY <1>2, <1>3, <1>4 DEF StackTypeOK
  <1>6. StackTypeOK'  BY <1>2, <1>4, <1>5, Zenon DEF StackTypeOK
  <1>7. Phase(k) = Phase(command[s])
    <2>1. Phase(k) = "none" /\ Phase(Idle) = "none"  BY <1>3, PhaseOf, Zenon
    <2> QED  BY <1>2, <2>1, Zenon
  <1>8. Tokens'  BY <1>2, <1>7, TokensStay, Zenon
  <1>9. OneInside' /\ HeapShape'
    <2>1. k.pc \in {0, 1, 2, 6}  BY <1>3, Zenon
    <2> QED  BY <1>2, <2>1, Outside, Zenon
  <1>10. Unborn' /\ (lifetime' # "deleted" => usable' = TRUE)
    <2>1. lifetime' # "none" /\ lifetime # "deleted"  BY <1>2
    <2> QED  BY <1>2, <2>1, Zenon DEF Unborn, StackOK
  <1> QED  BY <1>6, <1>8, <1>9, <1>10, Zenon DEF StackOK

\* create_queue(): all the room is free, and nobody is inside.
LEMMA CreateOK ==
  ASSUME StackOK, NEW s \in Terminal, create_queue(s)
  PROVE  StackOK'
  <1>1. /\ lifetime = "none" /\ lifetime' = "created" /\ items' = 0 /\ free' = STACK_ITEMS
        /\ stackMutex' = 1 /\ full' = 0 /\ empty' = STACK_ITEMS
        /\ UNCHANGED <<heap, command, usable, strays, spilled>>
    BY Zenon DEF create_queue
  <1>2. /\ Rows(heap, 0) /\ heap[STACK_ITEMS] = Blank
        /\ \A t \in Terminal : command[t].pc = 0
    BY <1>1, Zenon DEF StackOK, Unborn
  <1>3. STACK_ITEMS \in Nat /\ STACK_ITEMS \in Int /\ 0 \in Nat /\ 0 \in Int  BY StackAssumption
  <1>4. StackTypeOK'  BY <1>1, <1>3, Zenon DEF StackOK, StackTypeOK
  <1>5. ASSUME NEW ph, ph # "none"  PROVE Number(ph)' = 0
    <2>1. \A t \in Terminal : Phase(command'[t]) = "none"
      <3>1. \A t \in Terminal : command'[t].pc = 0  BY <1>1, <1>2, Zenon
      <3> QED  BY <3>1, PhaseOf, Zenon
    <2>2. InPhase(ph)' = {}  BY <1>5, <2>1, Zenon DEF InPhase
    <2> QED  BY <2>2, FS_EmptySet, Zenon DEF Number
  <1>6. Tokens'
    <2>1. /\ Number("filling")' = 0 /\ Number("filled")' = 0
          /\ Number("clearing")' = 0 /\ Number("cleared")' = 0
      <3>1. "filling" # "none" /\ "filled" # "none" /\ "clearing" # "none" /\ "cleared" # "none"
        OBVIOUS
      <3> QED  BY <1>5, <3>1, Zenon
    <2>2. /\ 0 + STACK_ITEMS = STACK_ITEMS /\ STACK_ITEMS + 0 + 0 = STACK_ITEMS /\ 0 + 0 + 0 = 0
          /\ STACK_ITEMS + 0 + 0 <= STACK_ITEMS /\ 0 + 0 + 0 <= 0
      BY <1>3
    <2> QED  BY <1>1, <2>1, <2>2, Zenon DEF Tokens
  <1>7. \A t \in Terminal : /\ command'[t].pc \notin 3..5 /\ command'[t].pc \notin {3, 5}
                            /\ command'[t].pc # 4
    BY <1>1, <1>2
  <1>8. OneInside'  BY <1>7, Zenon DEF OneInside, Critical
  <1>9. HeapShape'  BY <1>1, <1>2, <1>7, Zenon DEF HeapShape
  <1>10. Unborn' /\ (lifetime' # "deleted" => usable' = TRUE)
    <2>1. lifetime' # "none" /\ lifetime # "deleted"  BY <1>1
    <2> QED  BY <1>1, <2>1, Zenon DEF Unborn, StackOK
  <1> QED  BY <1>4, <1>6, <1>8, <1>9, <1>10, Zenon DEF StackOK

\* delete_queue(): nothing is said of the stack from then on.
LEMMA DeleteOK ==
  ASSUME StackOK, NEW s \in Terminal, delete_queue(s)
  PROVE  StackOK'
  <1>1. /\ lifetime' = "deleted" /\ usable' = (stackMutex = 0)
        /\ UNCHANGED <<free, items, stackMutex, full, empty, heap, command, strays, spilled>>
    BY Zenon DEF delete_queue
  <1>2. lifetime' # "none" /\ lifetime' # "created"  BY <1>1
  <1>3. usable' \in BOOLEAN  BY <1>1, Zenon
  <1>4. StackTypeOK'  BY <1>1, <1>3, Zenon DEF StackOK, StackTypeOK
  <1> QED  BY <1>1, <1>2, <1>4, Zenon DEF StackOK, Unborn, Tokens, OneInside, HeapShape

\* Every step of the commands keeps the invariant.
LEMMA StackNextOK == StackOK /\ [StackNext]_stackVars => StackOK'
  <1> SUFFICES ASSUME StackOK, [StackNext]_stackVars PROVE StackOK'  OBVIOUS
  <1>1. CASE UNCHANGED stackVars
    <2>1. UNCHANGED <<free, items, stackMutex, full, empty, heap, command, lifetime, usable,
                    strays, spilled>>
      BY <1>1, Zenon DEF stackVars
    <2>2. \A ph : Number(ph)' = Number(ph)  BY <2>1, Zenon DEF Number, InPhase
    <2>3. Tokens' /\ StackTypeOK' /\ Unborn'  BY <2>1, <2>2, Zenon DEF StackOK, Tokens, StackTypeOK, Unborn
    <2>4. OneInside' /\ HeapShape'  BY <2>1, Zenon DEF StackOK, OneInside, Critical, HeapShape
    <2> QED  BY <2>1, <2>3, <2>4, Zenon DEF StackOK
  <1>2. CASE StackNext
    BY <1>2, RunOK, CreateOK, DeleteOK, TakeGiveOK, MutexKept, PutOK, CountOK, KillOK, Zenon DEF StackNext
  <1> QED  BY <1>1, <1>2, Zenon

\* The commands between their two semaphores are those of the four phases.
LEMMA BetweenCount ==
  ASSUME StackTypeOK
  PROVE  Cardinality(Between)
           = (Number("filling") + Number("cleared")) + (Number("clearing") + Number("filled"))
  <1> DEFINE A == InPhase("filling") \cup InPhase("cleared")
             B == InPhase("clearing") \cup InPhase("filled")
  <1>1. ASSUME NEW S, NEW T, IsFiniteSet(S), IsFiniteSet(T), S \cap T = {}
        PROVE  Cardinality(S \cup T) = Cardinality(S) + Cardinality(T) /\ IsFiniteSet(S \cup T)
    <2>1. /\ IsFiniteSet(S \cup T) /\ IsFiniteSet(S \cap T)
          /\ Cardinality(S \cup T) = Cardinality(S) + Cardinality(T) - Cardinality(S \cap T)
      BY <1>1, FS_Union, FS_Intersection, Zenon
    <2>2. Cardinality(S \cap T) = 0  BY <1>1, FS_EmptySet, Zenon
    <2>3. Cardinality(S) \in Nat /\ Cardinality(T) \in Nat  BY <1>1, FS_CardinalityType, Zenon
    <2> QED  BY <2>1, <2>2, <2>3
  <1>2. \A ph : IsFiniteSet(InPhase(ph))  BY PhaseFinite, Zenon
  <1>3. \A ph, qh : ph # qh => InPhase(ph) \cap InPhase(qh) = {}  BY Zenon DEF InPhase
  <1>4. /\ "filling" # "cleared" /\ "clearing" # "filled" /\ "filling" # "clearing"
        /\ "filling" # "filled" /\ "cleared" # "clearing" /\ "cleared" # "filled"
    OBVIOUS
  <1>5. Cardinality(A) = Number("filling") + Number("cleared") /\ IsFiniteSet(A)
    BY <1>1, <1>2, <1>3, <1>4, Zenon DEF Number
  <1>6. Cardinality(B) = Number("clearing") + Number("filled") /\ IsFiniteSet(B)
    BY <1>1, <1>2, <1>3, <1>4, Zenon DEF Number
  <1>7. A \cap B = {}  BY <1>3, <1>4, Zenon
  <1>8. Between = A \cup B
    <2>1. ASSUME NEW s \in Terminal
          PROVE  command[s].pc > 1 <=> Phase(command[s]) \in {"filling", "cleared", "clearing", "filled"}
      <3>1. command[s].pc \in 0..6  BY DEF StackTypeOK, CommandRec
      <3>2. command[s].pc \in {0, 1} \/ command[s].pc \in {2, 3, 4} \/ command[s].pc \in {5, 6}  BY <3>1
      <3>3. CASE command[s].pc \in {0, 1}  BY <3>3, PhaseOf
      <3>4. CASE command[s].pc \in {2, 3, 4}
        <4>1. command[s].pc > 1  BY <3>4
        <4> QED  BY <3>4, <4>1, PhaseOf, Zenon
      <3>5. CASE command[s].pc \in {5, 6}
        <4>1. command[s].pc > 1  BY <3>5
        <4> QED  BY <3>5, <4>1, PhaseOf, Zenon
      <3> QED  BY <3>2, <3>3, <3>4, <3>5, Zenon
    <2> QED  BY <2>1, Zenon DEF Between, InPhase
  <1> HIDE DEF A, B
  <1>9. Cardinality(A \cup B) = Cardinality(A) + Cardinality(B)  BY <1>1, <1>5, <1>6, <1>7, Zenon
  <1> QED  BY <1>5, <1>6, <1>8, <1>9, Zenon

\* StackSound: the counts and the semaphores of the stack agree, whatever the words,
\* and the rows hold the words until modify_canvas() gets one longer than a row; for
\* any number of terminals, rows and killed commands.
THEOREM StackSoundHolds == StackSpec => []StackSound
  <1>1. StackInit => StackOK
    <2> SUFFICES ASSUME StackInit PROVE StackOK  OBVIOUS
    <2>1. /\ free = 0 /\ items = 0 /\ stackMutex = 0 /\ full = 0 /\ empty = 0 /\ strays = 0
          /\ lifetime = "none" /\ usable = TRUE /\ spilled = FALSE
      BY Zenon DEF StackInit
    <2>2. /\ heap \in [0..STACK_ITEMS -> Words \cup {Blank, "mixed"}]
          /\ \A j \in 0..STACK_ITEMS : heap[j] = Blank
      BY DEF StackInit
    <2>3. Idle \in CommandRec /\ Idle.pc = 0  BY DEF Idle, CommandRec
    <2>4. command \in [Terminal -> CommandRec] /\ \A s \in Terminal : command[s].pc = 0
      BY <2>3, Zenon DEF StackInit
    <2>5. 0 \in Int /\ 0 \in Nat /\ lifetime # "created" /\ lifetime # "deleted"  BY <2>1
    <2>6. StackTypeOK  BY <2>1, <2>2, <2>4, <2>5, Zenon DEF StackTypeOK
    <2>7. Unborn
      <3>1. \A j \in 0..STACK_ITEMS-1 : j \in 0..STACK_ITEMS /\ ~(j < 0)  BY StackAssumption
      <3>2. STACK_ITEMS \in 0..STACK_ITEMS  BY StackAssumption
      <3> QED  BY <2>2, <2>4, <3>1, <3>2, Zenon DEF Unborn, Rows
    <2> QED  BY <2>1, <2>5, <2>6, <2>7, Zenon DEF StackOK, Tokens, OneInside, HeapShape
  <1>2. StackOK => StackSound
    <2> SUFFICES ASSUME StackOK, lifetime = "created"
                 PROVE  /\ items \in 0..STACK_ITEMS /\ (~spilled => heap[STACK_ITEMS] = Blank)
                        /\ stackMutex = 1 =>
                             /\ items + free = STACK_ITEMS /\ (~spilled => Rows(heap, items))
                             /\ full <= items /\ empty <= free
                             /\ strays = 0 => full + empty + Cardinality(Between) = STACK_ITEMS
      BY Zenon DEF StackSound, Rows
    <2>1. items \in 0..STACK_ITEMS /\ items + free = STACK_ITEMS /\ full <= items /\ empty <= free
      BY RoomLeft, Zenon
    <2>2. ~spilled => heap[STACK_ITEMS] = Blank /\ (stackMutex = 1 => Rows(heap, items))
      BY Zenon DEF StackOK, HeapShape
    <2>3. ASSUME strays = 0  PROVE full + empty + Cardinality(Between) = STACK_ITEMS
      <3>1. PICK a \in Nat, b \in Nat, c \in Nat, d \in Nat :
              a = Number("filling") /\ b = Number("filled") /\ c = Number("clearing") /\ d = Number("cleared")
        BY PhaseFinite, Zenon
      <3>2. empty + a + d = free /\ full + c + b = items  BY <2>3, <3>1, Zenon DEF StackOK, Tokens
      <3>3. Cardinality(Between) = (a + d) + (c + b)  BY <3>1, BetweenCount, Zenon DEF StackOK
      <3>4. free \in Int /\ items \in Int /\ full \in Nat /\ empty \in Nat
        BY Zenon DEF StackOK, StackTypeOK
      <3> QED  BY <2>1, <3>2, <3>3, <3>4
    <2> QED  BY <2>1, <2>2, <2>3, Zenon
  <1> QED  BY <1>1, <1>2, StackNextOK, PTL DEF StackSpec
=============================================================================
