------------------------------ MODULE WordStack ------------------------------
(***************************************************************************)
(* The stack of words in shared memory (lab-05/wordstack.c): every process *)
(* runs one command on the stack, and may be killed at any step of it.     *)
(***************************************************************************)
EXTENDS Integers, FiniteSets

CONSTANTS Terminal,    \* each runs one command after another
          STACK_ITEMS, \* ITEMS
          MaxKills     \* bound on the commands killed

ASSUME StackAssumption ==
  IsFiniteSet(Terminal) /\ STACK_ITEMS \in Nat \ {0} /\ MaxKills \in Nat

VARIABLES free, items,      \* the fields of the stack
          stackMutex, full, empty, \* mutex (1 if free) and semaphores
          heap,     \* the words; row STACK_ITEMS is the memory after the last one
          command,  \* each terminal: its command and the step of it (0: none runs)
          lifetime, \* of the stack: "none", "created", or its name was "deleted"
          usable,    \* the mutex has not been destroyed
          strays,   \* history: commands that were killed after their sem_wait()
          spilled   \* history: a word longer than a row was written

stackVars == <<free, items, stackMutex, full, empty, heap, command, lifetime, usable, strays, spilled>>

Text == {"short", "long"}      \* words of at most MAX_WORD characters
Words == Text \cup {"over"}    \* and a longer one
Blank == "blank"
Idle == [c |-> "none", pc |-> 0]

StackInit ==
  /\ free = 0 /\ items = 0 /\ stackMutex = 0 /\ full = 0 /\ empty = 0
  /\ heap = [j \in 0..STACK_ITEMS |-> Blank]
  /\ command = [s \in Terminal |-> Idle]
  /\ lifetime = "none" /\ usable = TRUE /\ strays = 0 /\ spilled = FALSE

\* Faulty: the room is given back before the word is gone.
CommandEager(c) ==
  IF c \in Words THEN <<"wait_empty", "lock", "put", "count_up", "unlock", "post_full">>
                ELSE <<"wait_full", "post_empty", "lock", "clear", "count_down", "unlock">>

\* modify_canvas(word) and remove_queue().
Command(c) ==
  IF c \in Words THEN <<"wait_empty", "lock", "put", "count_up", "unlock", "post_full">>
                ELSE <<"wait_full", "lock", "clear", "count_down", "unlock", "post_empty">>

Becoming(s, k) == command' = [command EXCEPT ![s] = k]
AtOp(s, o) == command[s].pc # 0 /\ Command(command[s].c)[command[s].pc] = o
NextOp(s) == Becoming(s, IF command[s].pc = 6 THEN Idle
                         ELSE [c |-> command[s].c, pc |-> command[s].pc + 1])

Run(s, c) ==
  /\ command[s] = Idle /\ lifetime = "created" /\ Becoming(s, [c |-> c, pc |-> 1])
  /\ UNCHANGED <<free, items, stackMutex, full, empty, heap, lifetime, usable, strays, spilled>>

\* Of a stack that does not exist: -c on one in use, which would set it up a
\* second time under the commands that run, is not modelled.
create_queue(s) ==
  /\ command[s] = Idle /\ lifetime = "none" /\ lifetime' = "created"
  /\ items' = 0 /\ free' = STACK_ITEMS
  /\ stackMutex' = 1 /\ full' = 0 /\ empty' = STACK_ITEMS
  /\ UNCHANGED <<heap, command, usable, strays, spilled>>

\* The mutex is destroyed unless it is locked; the semaphores stay as they are.
delete_queue(s) ==
  /\ command[s] = Idle /\ lifetime = "created" /\ lifetime' = "deleted"
  /\ usable' = (stackMutex = 0)
  /\ UNCHANGED <<free, items, stackMutex, full, empty, heap, command, strays, spilled>>

\* The semaphores.
Take(s) ==
  /\ \/ AtOp(s, "wait_empty") /\ empty > 0 /\ empty' = empty - 1 /\ UNCHANGED full
     \/ AtOp(s, "wait_full") /\ full > 0 /\ full' = full - 1 /\ UNCHANGED empty
  /\ NextOp(s) /\ UNCHANGED <<free, items, stackMutex, heap, lifetime, usable, strays, spilled>>

Give(s) ==
  /\ \/ AtOp(s, "post_full") /\ full' = full + 1 /\ UNCHANGED empty
     \/ AtOp(s, "post_empty") /\ empty' = empty + 1 /\ UNCHANGED full
  /\ NextOp(s) /\ UNCHANGED <<free, items, stackMutex, heap, lifetime, usable, strays, spilled>>

\* The mutex.
LockStack(s) ==
  /\ AtOp(s, "lock")
  /\ IF usable THEN stackMutex = 1 /\ stackMutex' = 0 ELSE UNCHANGED stackMutex
  /\ NextOp(s) /\ UNCHANGED <<free, items, full, empty, heap, lifetime, usable, strays, spilled>>

UnlockStack(s) ==
  /\ AtOp(s, "unlock")
  /\ stackMutex' = IF usable THEN 1 ELSE stackMutex
  /\ NextOp(s) /\ UNCHANGED <<free, items, full, empty, heap, lifetime, usable, strays, spilled>>

\* strlen(word) characters are copied, without the 0 after them and without a
\* test against MAX_WORD: a longer word goes on in the rows below, up to some row n.
Over(w, old) == IF w = "long" \/ old \in {Blank, w} THEN w ELSE "mixed"
Fill(w) ==
  IF w \in Text THEN heap' = [heap EXCEPT ![items] = Over(w, @)] /\ UNCHANGED spilled
  ELSE /\ \E n \in items+1..items+STACK_ITEMS :
            heap' = [j \in 0..STACK_ITEMS |->
                       IF j = items THEN w ELSE IF j \in items+1..n THEN "mixed" ELSE heap[j]]
       /\ spilled' = TRUE

\* A word that is removed is overwritten with max_word 0s.
Put(s) ==
  /\ \/ AtOp(s, "put") /\ Fill(command[s].c)
     \/ AtOp(s, "clear") /\ heap' = [heap EXCEPT ![items - 1] = Blank] /\ UNCHANGED spilled
  /\ NextOp(s) /\ UNCHANGED <<free, items, stackMutex, full, empty, lifetime, usable, strays>>

CountWords(s) ==
  /\ \/ AtOp(s, "count_up") /\ free' = free - 1 /\ items' = items + 1
     \/ AtOp(s, "count_down") /\ free' = free + 1 /\ items' = items - 1
  /\ NextOp(s) /\ UNCHANGED <<stackMutex, full, empty, heap, lifetime, usable, strays, spilled>>

KillCommand(s) ==
  /\ command[s].pc # 0 /\ strays < MaxKills /\ Becoming(s, Idle)
  /\ strays' = strays + (IF command[s].pc > 1 THEN 1 ELSE 0)
  /\ UNCHANGED <<free, items, stackMutex, full, empty, heap, lifetime, usable, spilled>>

StackNext == \E s \in Terminal :
  \/ \E c \in Words \cup {"remove"} : Run(s, c)
  \/ create_queue(s) \/ delete_queue(s)
  \/ Take(s) \/ LockStack(s) \/ Put(s) \/ CountWords(s) \/ UnlockStack(s) \/ Give(s)
  \/ KillCommand(s)

StackSpec == StackInit /\ [][StackNext]_stackVars

-----------------------------------------------------------------------------
\* The commands that took a token and have not given one back.
Between == {s \in Terminal : command[s].pc > 1}

\* As long as the stack was created once and not deleted: whenever the mutex is
\* free the counters add up, and the semaphores never let in more commands than
\* there are words or room, also after commands were killed; when none was, they
\* count exactly.  Until a word longer than a row was written (wordstack.c:126-128
\* does not test it) nothing is written outside the rows, and the words are the
\* first rows, whole.
StackSound ==
  lifetime = "created" =>
    /\ items \in 0..STACK_ITEMS /\ (~spilled => heap[STACK_ITEMS] = Blank)
    /\ stackMutex = 1 =>
         /\ items + free = STACK_ITEMS
         /\ ~spilled => \A j \in 0..STACK_ITEMS-1 : heap[j] \in IF j < items THEN Text ELSE {Blank}
         /\ full <= items /\ empty <= free
         /\ strays = 0 => full + empty + Cardinality(Between) = STACK_ITEMS
=============================================================================
