---------------------------- MODULE BoundedBuffer ----------------------------
(***************************************************************************)
(* The bounded buffer with one producer and one consumer thread:           *)
(* lab-05/buf.c, whose main() destroys the mutex while the threads use it, *)
(* and ejemplossemaforos/prodcons.c, whose semaphores have names and so    *)
(* survive a run that is killed.                                           *)
(***************************************************************************)
EXTENDS Integers, Sequences

CONSTANTS BUFFER_SIZE, ITEMS,
          MaxAborts  \* bound on the runs that are killed

ASSUME BufferAssumption ==
  BUFFER_SIZE \in Nat \ {0} /\ ITEMS \in Nat /\ MaxAborts \in Nat

VARIABLES prog,   \* "buf" or "prodcons"
          sem,    \* the values of the semaphores
          named,  \* the names that exist
          works,  \* the mutex has not been destroyed
          todo,   \* what main() does next
          posts,  \* i of main()'s loop that raises vacios
          thread, \* producer and consumer: the step of the loop (0: not created)
                  \* and the number of the item, from 1
          slots, results,  \* the buffer, what the consumer has read
          clean,  \* the semaphores did not exist when the run began
          aborts

bufferVars == <<prog, sem, named, works, todo, posts, thread, slots, results, clean, aborts>>

Sem == {"mutex", "vacios", "llenos"}
Role == {"producer", "consumer"}
NoThreads == [t \in Role |-> [pc |-> 0, i |-> 1]]
Fresh == [j \in 0..BUFFER_SIZE-1 |-> 0]

BufferInit ==
  /\ prog \in {"buf", "prodcons"}
  /\ sem = [s \in Sem |-> 0] /\ named = {} /\ works = TRUE
  /\ todo = "start" /\ posts = 0 /\ thread = NoThreads
  /\ slots = Fresh /\ results = <<>>
  /\ clean = TRUE /\ aborts = 0

-----------------------------------------------------------------------------
Then(a, b) == todo = a /\ todo' = b
create == thread' = [t \in Role |-> [pc |-> 1, i |-> 1]]

\* buf.c: the semaphores are in the memory of the process.
Start ==
  /\ prog = "buf"
  /\ sem' = [[s \in Sem |-> 0] EXCEPT !["mutex"] = 1, !["vacios"] = BUFFER_SIZE]
  /\ create /\ Then("start", "destroy")
  /\ UNCHANGED <<prog, named, works, posts, slots, results, clean, aborts>>

\* pthread_mutex_destroy() refuses a locked mutex; afterwards locking fails and
\* nobody looks.  sem_destroy() leaves the semaphores as they are.
Destroy ==
  /\ Then("destroy", "end")
  /\ works' = (sem["mutex"] = 0)
  /\ UNCHANGED <<prog, sem, named, posts, thread, slots, results, clean, aborts>>

\* prodcons.c begins.
Begin ==
  /\ prog = "prodcons" /\ Then("start", "open_mutex")
  /\ clean' = (named = {}) /\ posts' = 0
  /\ UNCHANGED <<prog, sem, named, works, thread, slots, results, aborts>>

sem_post(s) == sem' = [sem EXCEPT ![s] = @ + 1]
sem_wait(s) == sem[s] > 0 /\ sem' = [sem EXCEPT ![s] = @ - 1]

sem_open(s) ==
  /\ named' = named \cup {s}
  /\ sem' = IF s \in named THEN sem ELSE [sem EXCEPT ![s] = 1]
  /\ UNCHANGED thread

\* The producer, should it still run, has its semaphores open.
sem_unlink(s) == named' = named \ {s} /\ UNCHANGED <<sem, thread>>

\* vacios is raised from 1 to BUFFER_SIZE, llenos lowered to 0.
Main ==
  /\ prog = "prodcons"
  /\ \/ Then("open_mutex", "open_vacios") /\ sem_open("mutex") /\ UNCHANGED posts
     \/ Then("open_vacios", "post_vacios") /\ sem_open("vacios") /\ UNCHANGED posts
     \/ /\ Then("post_vacios", "post_vacios") /\ posts < BUFFER_SIZE - 1
        /\ sem_post("vacios") /\ posts' = posts + 1 /\ UNCHANGED <<named, thread>>
     \/ /\ Then("post_vacios", "wait_llenos") /\ posts >= BUFFER_SIZE - 1
        /\ sem_open("llenos") /\ UNCHANGED posts
     \/ Then("wait_llenos", "create") /\ sem_wait("llenos") /\ UNCHANGED <<posts, named, thread>>
     \/ Then("create", "join") /\ create /\ UNCHANGED <<posts, sem, named>>
     \/ /\ Then("join", "unlink_mutex") /\ thread["consumer"].i > ITEMS
        /\ UNCHANGED <<posts, sem, named, thread>>
     \/ Then("unlink_mutex", "unlink_llenos") /\ sem_unlink("mutex") /\ UNCHANGED posts
     \/ Then("unlink_llenos", "unlink_vacios") /\ sem_unlink("llenos") /\ UNCHANGED posts
     \/ Then("unlink_vacios", "end") /\ sem_unlink("vacios") /\ UNCHANGED posts
  /\ UNCHANGED <<prog, works, slots, results, clean, aborts>>

\* The process is killed and the program started again: the names remain.
Abort ==
  /\ prog = "prodcons" /\ aborts < MaxAborts /\ todo # "start"
  /\ aborts' = aborts + 1
  /\ todo' = "start" /\ thread' = NoThreads /\ slots' = Fresh /\ results' = <<>>
  /\ UNCHANGED <<prog, sem, named, works, posts, clean>>

-----------------------------------------------------------------------------
\* Faulty: the producer tells the consumer before it stores the item.
ThreadLoopEager(t) == IF t = "producer" THEN <<"vacios", "lock", "llenos", "access", "unlock">>
                                  ELSE <<"llenos", "lock", "access", "unlock", "vacios">>

\* The loops of producer() and consumer(): wait for a token, go into the
\* buffer, pass a token on.
ThreadLoop(t) == IF t = "producer" THEN <<"vacios", "lock", "access", "unlock", "llenos">>
                             ELSE <<"llenos", "lock", "access", "unlock", "vacios">>

Advance(t) == thread' = [thread EXCEPT ![t] =
                IF @.pc = 5 THEN [pc |-> 1, i |-> @.i + 1] ELSE [pc |-> @.pc + 1, i |-> @.i]]
AtStep(t, s) == thread[t].pc # 0 /\ thread[t].i <= ITEMS /\ ThreadLoop(t)[thread[t].pc] = s
Slot(t) == (thread[t].i - 1) % BUFFER_SIZE

Wait(t) ==
  /\ thread[t].pc = 1 /\ AtStep(t, ThreadLoop(t)[1]) /\ sem_wait(ThreadLoop(t)[1])
  /\ Advance(t) /\ UNCHANGED <<prog, named, works, todo, posts, slots, results, clean, aborts>>

LockBuffer(t) ==
  /\ AtStep(t, "lock")
  /\ IF works THEN sem_wait("mutex") ELSE UNCHANGED sem
  /\ Advance(t) /\ UNCHANGED <<prog, named, works, todo, posts, slots, results, clean, aborts>>

Access(t) ==
  /\ AtStep(t, "access")
  /\ IF t = "producer"
     THEN slots' = [slots EXCEPT ![Slot(t)] = thread[t].i] /\ UNCHANGED results
     ELSE results' = Append(results, slots[Slot(t)]) /\ UNCHANGED slots
  /\ Advance(t) /\ UNCHANGED <<prog, sem, named, works, todo, posts, clean, aborts>>

Unlock(t) ==
  /\ AtStep(t, "unlock")
  /\ IF works THEN sem_post("mutex") ELSE UNCHANGED sem
  /\ Advance(t) /\ UNCHANGED <<prog, named, works, todo, posts, slots, results, clean, aborts>>

Post(t) ==
  /\ thread[t].pc > 1 /\ \E s \in {"vacios", "llenos"} : AtStep(t, s) /\ sem_post(s)
  /\ Advance(t) /\ UNCHANGED <<prog, named, works, todo, posts, slots, results, clean, aborts>>

BufferNext ==
  \/ Start \/ Destroy \/ Begin \/ Main \/ Abort
  \/ \E t \in Role : Wait(t) \/ LockBuffer(t) \/ Access(t) \/ Unlock(t) \/ Post(t)

BufferSpec == BufferInit /\ [][BufferNext]_bufferVars

-----------------------------------------------------------------------------
Holds(t) == IF thread[t].pc \in 2..5 THEN 1 ELSE 0
Waits(t) == thread[t].pc = 1 /\ thread[t].i <= ITEMS /\ sem[ThreadLoop(t)[1]] = 0

\* In a run that found no semaphores of an earlier one the consumer gets every
\* item once and in order, every slot of the buffer is counted by one token,
\* and the two threads never wait for each other for ever.  It holds whether
\* or not buf.c has destroyed the mutex.
ItemsInOrder ==
  clean /\ thread # NoThreads =>
    /\ results = [k \in 1..Len(results) |-> k]
    /\ sem["vacios"] + sem["llenos"] + Holds("producer") + Holds("consumer") = BUFFER_SIZE
    /\ ~(Waits("producer") /\ Waits("consumer"))
    /\ ~(Waits("consumer") /\ thread["producer"].i > ITEMS)
=============================================================================
