-------------------------------- MODULE Pipe --------------------------------
(***************************************************************************)
(* xv6/pipe.c: one pipe, the processes that have one of its ends open, and *)
(* fileclose() of xv6/file.c as far as it decides when an end is closed.   *)
(*                                                                         *)
(* What pipewrite() and piperead() do with p->lock held is one step, up to *)
(* the return or to sleep().  The test of killed and sleep()'s acquire of  *)
(* ptable.lock are not: kill(), which does not take p->lock, can come      *)
(* between them.  nread and nwrite are uint counters that wrap around.     *)
(***************************************************************************)
EXTENDS Naturals, Sequences

CONSTANTS Writer, Reader,  \* the processes with the write end, the read end
          NoProc,
          Val,             \* bytes
          PIPESIZE,
          UINT,            \* the counters count modulo UINT, 2^32 in the program
          Message,         \* what write() is called with
          ReadSize         \* the n of read()

Proc == Writer \cup Reader

ASSUME PipeAssumption ==
  /\ Writer \cap Reader = {} /\ NoProc \notin Proc
  /\ PIPESIZE \in Nat \ {0} /\ UINT \in Nat
  /\ Message \subseteq Seq(Val) /\ ReadSize \subseteq Nat
  /\ UINT % PIPESIZE = 0 /\ UINT > PIPESIZE

VARIABLES
  data, nread, nwrite,
  readopen, writeopen,
  freed,     \* kfree() has been called
  lock,      \* holder of p->lock between two steps
  pc,        \* where the process is
  rem,       \* what pipewrite() has still to write
  want,      \* piperead()'s n
  killed,
  fds,       \* the processes that have not closed their end
  out        \* what the last step has copied to a caller of read()

vars == <<data, nread, nwrite, readopen, writeopen, freed, lock, pc, rem, want, killed, fds, out>>

Index == 0..PIPESIZE-1

TypeOK ==
  /\ data \in [Index -> Val]
  /\ nread \in 0..UINT-1 /\ nwrite \in 0..UINT-1
  /\ readopen \in BOOLEAN /\ writeopen \in BOOLEAN /\ freed \in BOOLEAN
  /\ lock \in Proc \cup {NoProc}
  /\ pc \in [Proc -> {"idle", "write", "read", "tosleep", "asleep"}]
  /\ rem \in [Writer -> Seq(Val)]
  /\ want \in [Reader -> Nat]
  /\ killed \in [Proc -> BOOLEAN]
  /\ fds \subseteq Proc

\* pipealloc(), and fork() for the processes that share an end.
Init ==
  /\ data \in [Index -> Val]
  /\ nread = 0 /\ nwrite = 0
  /\ readopen = TRUE /\ writeopen = TRUE /\ freed = FALSE
  /\ lock = NoProc
  /\ pc = [p \in Proc |-> "idle"]
  /\ rem = [p \in Writer |-> <<>>]
  /\ want = [p \in Reader |-> 0]
  /\ killed = [p \in Proc |-> FALSE]
  /\ fds = Proc
  /\ out = <<>>

\* The loop that a process is in, asleep or not.
Loop(p) == IF p \in Writer THEN "write" ELSE "read"

WakeupNone(next, S) == next   \* faulty: nobody is woken

\* wakeup(&p->nread) and wakeup(&p->nwrite): readers sleep on the one, writers
\* on the other.
Wakeup(next, S) == [p \in Proc |-> IF p \in S /\ pc[p] = "asleep" THEN Loop(p) ELSE next[p]]

Count == (nwrite + UINT - nread) % UINT

\* The slot of the j-th byte from counter c on.
At(c, j) == ((c + j - 1) % UINT) % PIPESIZE

\* A counter after k more bytes.
Add(c, k) == (c + k) % UINT

RoomOff == PIPESIZE + 1 - Count   \* faulty: full one byte too late

Room == PIPESIZE - Count

Min(m, n) == IF m < n THEN m ELSE n

-----------------------------------------------------------------------------
\* write() and read() reach pipe.c.
WriteCall(p, s) ==
  /\ pc[p] = "idle" /\ p \in fds /\ ~killed[p]
  /\ pc' = [pc EXCEPT ![p] = "write"]
  /\ rem' = [rem EXCEPT ![p] = s]
  /\ out' = <<>>
  /\ UNCHANGED <<data, nread, nwrite, readopen, writeopen, freed, lock, want, killed, fds>>

ReadCall(p, n) ==
  /\ pc[p] = "idle" /\ p \in fds /\ ~killed[p]
  /\ pc' = [pc EXCEPT ![p] = "read"]
  /\ want' = [want EXCEPT ![p] = n]
  /\ out' = <<>>
  /\ UNCHANGED <<data, nread, nwrite, readopen, writeopen, freed, lock, rem, killed, fds>>

\* pipewrite() from acquire, its own or sleep()'s: as many bytes as there is
\* room for; then return n, return -1, or wake the readers and go to sleep.
PipeWrite(p) ==
  LET s == rem[p]
      k == Min(Len(s), Room)
  IN
  /\ pc[p] = "write" /\ lock = NoProc
  /\ data' = [i \in Index |->
       LET at == {j \in 1..k : At(nwrite, j) = i} IN
       IF at = {} THEN data[i] ELSE s[CHOOSE j \in at : TRUE]]
  /\ nwrite' = Add(nwrite, k)
  /\ \/ /\ k = Len(s)
        /\ pc' = Wakeup([pc EXCEPT ![p] = "idle"], Reader)
        /\ rem' = [rem EXCEPT ![p] = <<>>]
        /\ UNCHANGED lock
     \/ /\ k < Len(s) /\ (~readopen \/ killed[p])
        /\ pc' = [pc EXCEPT ![p] = "idle"]
        /\ rem' = [rem EXCEPT ![p] = <<>>]
        /\ UNCHANGED lock
     \/ /\ k < Len(s) /\ readopen /\ ~killed[p]
        /\ rem' = [rem EXCEPT ![p] = SubSeq(s, k + 1, Len(s))]
        /\ pc' = Wakeup([pc EXCEPT ![p] = "tosleep"], Reader)
        /\ lock' = p
  /\ out' = <<>>
  /\ UNCHANGED <<nread, readopen, writeopen, freed, want, killed, fds>>

\* piperead() from acquire: sleep if the pipe is empty and has a writer, or
\* copy what there is.
PipeRead(p) ==
  LET k == Min(want[p], Count) IN
  /\ pc[p] = "read" /\ lock = NoProc
  /\ \/ /\ Count = 0 /\ writeopen /\ ~killed[p]
        /\ pc' = [pc EXCEPT ![p] = "tosleep"]
        /\ lock' = p
        /\ out' = <<>>
        /\ UNCHANGED <<nread, want>>
     \/ /\ Count = 0 /\ writeopen /\ killed[p]
        /\ pc' = [pc EXCEPT ![p] = "idle"]
        /\ want' = [want EXCEPT ![p] = 0]
        /\ out' = <<>>
        /\ UNCHANGED <<nread, lock>>
     \/ /\ Count > 0 \/ ~writeopen
        /\ out' = [j \in 1..k |-> data[At(nread, j)]]
        /\ nread' = Add(nread, k)
        /\ pc' = Wakeup([pc EXCEPT ![p] = "idle"], Writer)
        /\ want' = [want EXCEPT ![p] = 0]
        /\ UNCHANGED lock
  /\ UNCHANGED <<data, nwrite, readopen, writeopen, freed, rem, killed, fds>>

\* sleep(): with ptable.lock, SLEEPING; p->lock is released.
Sleep(p) ==
  /\ pc[p] = "tosleep"
  /\ pc' = [pc EXCEPT ![p] = "asleep"]
  /\ lock' = NoProc
  /\ out' = <<>>
  /\ UNCHANGED <<data, nread, nwrite, readopen, writeopen, freed, rem, want, killed, fds>>

\* kill(): marks the process, and wakes it if it sleeps.
Kill(p) ==
  /\ ~killed[p]
  /\ killed' = [killed EXCEPT ![p] = TRUE]
  /\ pc' = [pc EXCEPT ![p] = IF @ = "asleep" THEN Loop(p) ELSE @]
  /\ out' = <<>>
  /\ UNCHANGED <<data, nread, nwrite, readopen, writeopen, freed, lock, rem, want, fds>>

End(p) == IF p \in Writer THEN Writer ELSE Reader

LastCloseNoRef(p) == TRUE     \* faulty: no reference count

\* --f->ref reaches 0.
LastClose(p) == End(p) \cap fds = {p}

\* fileclose(), by close() or exit(): the last process to close an end calls
\* pipeclose(), which wakes the other end, or frees the pipe.
Close(p) ==
  LET last == LastClose(p) IN
  /\ pc[p] = "idle" /\ p \in fds /\ (last => lock = NoProc)
  /\ fds' = fds \ {p}
  /\ writeopen' = (writeopen /\ ~(last /\ p \in Writer))
  /\ readopen' = (readopen /\ ~(last /\ p \in Reader))
  /\ pc' = IF last THEN Wakeup(pc, Proc \ End(p)) ELSE pc
  /\ freed' = (freed \/ (last /\ ~readopen' /\ ~writeopen'))
  /\ out' = <<>>
  /\ UNCHANGED <<data, nread, nwrite, lock, rem, want, killed>>

Step(p) == Sleep(p) \/ (p \in Writer /\ PipeWrite(p)) \/ (p \in Reader /\ PipeRead(p))

Next ==
  \/ \E p \in Proc : Step(p) \/ Kill(p) \/ Close(p)
  \/ \E p \in Writer, s \in Message : WriteCall(p, s)
  \/ \E p \in Reader, n \in ReadSize : ReadCall(p, n)

Spec == Init /\ [][Next]_vars

\* Processes in the kernel go on, and one that waits for p->lock gets it in the end
\* if it is free again and again.  They need not call, close, or be killed.
FairSpec == Spec /\ \A p \in Proc : SF_vars(Step(p))

-----------------------------------------------------------------------------
F == INSTANCE Fifo WITH
       Capacity <- PIPESIZE,
       q <- [i \in 1..Count |-> data[At(nread, i)]]

\* Readers get the bytes of the writers, each once and in order, also when the
\* counters wrap around, when several processes read and write, and when writes
\* are cut short.
ImplementsFifo == F!FifoSpec

\* The file's reference count keeps the pipe until nobody can be inside
\* pipewrite() or piperead().
NoUseAfterFree == freed => \A p \in Proc : pc[p] = "idle"

\* While the lock is free, a writer sleeps only on a full pipe with a reader, and
\* a reader only on an empty one with a writer; unless a killed writer has left
\* bytes behind without waking the readers.
NoLostWakeup ==
  lock = NoProc =>
    \A p \in Proc : pc[p] = "asleep" =>
      IF p \in Writer THEN Count = PIPESIZE /\ readopen
      ELSE /\ writeopen
           /\ Count = 0 \/ \E w \in Writer : killed[w]

\* What sleep, wakeup and the reference count of the ends promise together.
PipeSound == TypeOK /\ NoUseAfterFree /\ NoLostWakeup

\* pipeclose() wakes the other end: a read without writers, and a write without
\* readers, returns.
CloseUnblocks ==
  /\ \A p \in Reader : (pc[p] # "idle" /\ ~writeopen) ~> pc[p] = "idle"
  /\ \A p \in Writer : (pc[p] # "idle" /\ ~readopen) ~> pc[p] = "idle"
=============================================================================
