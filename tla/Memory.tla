------------------------------- MODULE Memory -------------------------------
(***************************************************************************)
(* Physical memory and address spaces: the page allocator of xv6/kalloc.c, *)
(* the page tables of xv6/vm.c, and the calls that build, copy, grow and   *)
(* drop them: fork, exec, sbrk, exit and wait.                             *)
(*                                                                         *)
(* Every kalloc() is a step, and each may find that another process took   *)
(* the last page.  The pages a function frees are freed in one step.  Pages*)
(* are counted, not named: a page is its use, as the directory, a table or *)
(* a page of one space, or as a kernel stack.  The kernel's half of a page *)
(* directory has one page table.                                           *)
(***************************************************************************)
LOCAL INSTANCE Integers
LOCAL INSTANCE Sequences
LOCAL INSTANCE FiniteSets
LOCAL INSTANCE Functions

CONSTANTS Task,       \* slots of the process table; 1 is the first process
          NFRAMES,    \* pages of physical memory after the kernel
          PGSIZE, NPTENTRIES,
          NPDENTRIES, \* page tables of the user's half
          Increments, \* arguments of sbrk()
          Programs    \* executables: where their segments end (seg, above 0), how many
                      \* of them load, and whether the arguments fit the stack

VARIABLES freelist,  \* the number of free pages
          space,     \* pgdir and sz of each process
          kstack,    \* whether it has a kernel stack
          call       \* the call that it is in

memVars == <<freelist, space, kstack, call>>

Page == 0..NPTENTRIES*NPDENTRIES-1
KERNBASE == PGSIZE * NPTENTRIES * NPDENTRIES
Table == 0..NPDENTRIES                \* the last one is the kernel's
NoSpace == [dir |-> 0, tab |-> {}, pte |-> {}, user |-> {}, sz |-> 0]
Idle == [do |-> "none", to |-> <<>>, new |-> NoSpace, mem |-> 0, child |-> 0,
         a |-> 0, oldsz |-> 0, newsz |-> 0, load |-> 0, args |-> FALSE, error |-> FALSE]
PGROUNDUP(x) == PGSIZE * ((x + PGSIZE - 1) \div PGSIZE)

\* userinit(): a kernel stack, a page directory and one page for initcode.
Init ==
  /\ freelist = NFRAMES - 5
  /\ kstack = [p \in Task |-> p = 1]
  /\ space = [p \in Task |-> IF p # 1 THEN NoSpace ELSE
       [dir |-> 1, tab |-> {0, NPDENTRIES}, pte |-> {0}, user |-> {0}, sz |-> PGSIZE]]
  /\ call = [p \in Task |-> Idle]

-----------------------------------------------------------------------------
\* The pages that deallocuvm() frees when it takes a space from oldsz to newsz,
\* how many there are, and the space it leaves; page tables stay.
Between(oldsz, newsz) == {v \in Page : PGROUNDUP(newsz) <= v * PGSIZE /\ v * PGSIZE < oldsz}
Held(s, V) == Cardinality(s.pte \cap V)
deallocuvm(s, V) == [s EXCEPT !.pte = @ \ V, !.user = @ \ V]

\* Faulty: the page tables are not freed.
freevmTables(s) == Held(s, Page) + s.dir

\* freevm(): everything that a page directory reaches, and itself.
freevm(s) == Held(s, Page) + Cardinality(s.tab) + s.dir

kalloc == freelist > 0 /\ freelist' = freelist - 1
kfree(n) == freelist' = freelist + n

\* clearpteu() of page v.
clearpteu(s, v) == [s EXCEPT !.user = @ \ {v}]

\* sys_pgcnt(): the present pages that the user may use.
sys_pgcnt(s) == Cardinality(s.pte \cap s.user)

Stay(p, c) == call' = [call EXCEPT ![p] = c]
Target(p) == IF call[p].do = "grow" THEN space[p] ELSE call[p].new
SetTarget(p, s, c) ==
  IF c.do = "grow" THEN space' = [space EXCEPT ![p] = s] /\ Stay(p, c)
                   ELSE UNCHANGED space /\ Stay(p, [c EXCEPT !.new = s])

\* What an allocation that fails undoes: allocuvm() its own pages in sbrk();
\* exec() and copyuvm() drop the whole new directory, fork() the kernel stack.
Fail(p, mem) ==
  LET c == call[p]
      V == Between(c.newsz, c.oldsz)
  IN  IF c.do = "grow"
        THEN /\ kfree(Held(space[p], V) + mem)
             /\ space' = [space EXCEPT ![p] = deallocuvm(@, V)]
             /\ UNCHANGED kstack /\ Stay(p, Idle)
        ELSE /\ kfree(freevm(c.new) + mem + (IF c.do = "fork" THEN 1 ELSE 0))
             /\ kstack' = IF c.do = "fork" THEN [kstack EXCEPT ![c.child] = FALSE] ELSE kstack
             /\ UNCHANGED space /\ Stay(p, Idle)

-----------------------------------------------------------------------------
\* A process runs user code: its first page, which holds the program, is there.
Runs(p) == kstack[p] /\ call[p] = Idle /\ 0 \in space[p].pte

\* fork(): allocproc() with its kernel stack, then copyuvm() page by page.
Fork(p, c) ==
  /\ Runs(p) /\ ~kstack[c] /\ kalloc
  /\ kstack' = [kstack EXCEPT ![c] = TRUE]
  /\ Stay(p, [Idle EXCEPT !.do = "fork", !.child = c, !.to = <<<<"dir">>, <<"ktab">>, <<"size", space[p].sz>>, <<"born">>>>])
  /\ UNCHANGED space

\* exec(): a new space for the segments, the stack and its guard page.
Exec(p, prog) ==
  /\ Runs(p)
  /\ Stay(p, [Idle EXCEPT !.do = "exec", !.load = prog.load, !.args = prog.args,
                          !.to = <<<<"dir">>, <<"ktab">>>>
            \o [k \in DOMAIN prog.seg |-> <<"size", prog.seg[k]>>]
            \o <<<<"stack">>, <<"args">>, <<"commit">>>>])
  /\ UNCHANGED <<freelist, space, kstack>>

\* growproc() by n bytes: allocuvm() needs several steps, deallocuvm() one.
\* newsz is a uint: one below zero is not less than oldsz.  A process that
\* gives up all its memory is told that the call failed, and keeps its sz.
Sbrk(p, n) ==
  LET sz == space[p].sz
      V == Between(sz, sz + n)
  IN  /\ Runs(p)
      /\ IF n > 0 THEN /\ Stay(p, [Idle EXCEPT !.do = "grow", !.to = <<<<"size", sz + n>>, <<"grown">>>>])
                       /\ UNCHANGED <<freelist, space>>
         ELSE /\ sz + n >= 0
              /\ kfree(Held(space[p], V))
              /\ space' = [space EXCEPT ![p] = [deallocuvm(@, V) EXCEPT
                              !.sz = IF sz + n = 0 THEN @ ELSE sz + n]]
              /\ UNCHANGED call
      /\ UNCHANGED kstack

-----------------------------------------------------------------------------
\* setupkvm(): the directory, then the page table of the kernel's mappings.
Goal(p) == IF call[p].to = <<>> THEN "none" ELSE call[p].to[1][1]
Rest(p) == [call[p] EXCEPT !.to = Tail(@)]
SetupKvm(p) ==
  /\ Goal(p) \in {"dir", "ktab"}
  /\ UNCHANGED kstack
  /\ kalloc
  /\ SetTarget(p, IF Goal(p) = "dir" THEN [NoSpace EXCEPT !.dir = 1]
                  ELSE [call[p].new EXCEPT !.tab = {NPDENTRIES}], Rest(p))

SetupFails(p) ==
  /\ Goal(p) \in {"dir", "ktab"} /\ freelist = 0
  /\ Fail(p, 0)

\* allocuvm() is entered, for sbrk() or a segment, with newsz the next goal;
\* copyuvm() with the size of the parent.
Enter(p) ==
  LET s == Target(p)
      n == IF Goal(p) = "stack" THEN PGROUNDUP(s.sz) + 2 * PGSIZE ELSE call[p].to[1][2]
  IN  /\ call[p].newsz = 0 /\ Goal(p) \in {"stack", "size"}
      /\ IF n >= KERNBASE THEN Fail(p, 0)
         ELSE /\ Stay(p, [call[p] EXCEPT !.a = PGROUNDUP(s.sz), !.oldsz = s.sz, !.newsz = n])
              /\ UNCHANGED <<freelist, space, kstack>>

\* One turn of the loop of allocuvm() and copyuvm(): a page for the user.
Entered(p) == call[p].newsz # 0 /\ call[p].mem = 0
UserPage(p) ==
  /\ Entered(p) /\ call[p].a < call[p].newsz
  /\ IF freelist = 0 THEN Fail(p, 0)
     ELSE kalloc /\ Stay(p, [call[p] EXCEPT !.mem = 1]) /\ UNCHANGED <<space, kstack>>

\* mappages(): walkpgdir() adds the page table if there is none.
Flags(p, v) == IF call[p].do = "fork" THEN {v} \cap space[p].user ELSE {v}
Mapped(p, s, v, t) == [s EXCEPT !.pte = @ \cup {v}, !.user = @ \cup Flags(p, v), !.tab = @ \cup {t}]
Turn(c) == [c EXCEPT !.mem = 0, !.a = @ + PGSIZE]
MapPage(p) ==
  LET s == Target(p)
      v == call[p].a \div PGSIZE
      t == v \div NPTENTRIES
  IN  /\ call[p].mem = 1
      /\ IF t \notin s.tab /\ freelist = 0 THEN Fail(p, 1)
         ELSE /\ IF t \in s.tab THEN UNCHANGED freelist ELSE kalloc
              /\ SetTarget(p, Mapped(p, s, v, t), Turn(call[p])) /\ UNCHANGED kstack

\* The loop is over.  exec() may now find that the segment does not load, and
\* takes PTE_U from the page under the stack.
Grown(p) ==
  LET c == call[p]
      s == Target(p)
      n == IF c.newsz < c.oldsz THEN c.oldsz ELSE c.newsz
      done == [Rest(p) EXCEPT !.newsz = 0, !.load = @ - 1]
  IN  /\ Entered(p) /\ c.a >= c.newsz
      /\ IF c.do = "exec" /\ Goal(p) # "stack" /\ c.load = 0 THEN Fail(p, 0)
         ELSE /\ SetTarget(p, CASE c.do = "grow" -> s
                                [] Goal(p) = "stack" -> clearpteu([s EXCEPT !.sz = n], n \div PGSIZE - 2)
                                [] OTHER -> [s EXCEPT !.sz = n],
                           [done EXCEPT !.a = n])
              /\ UNCHANGED <<freelist, kstack>>

\* copyout() of the arguments: they fit into the stack or meet the guard page.
Args(p) ==
  /\ Goal(p) = "args"
  /\ IF call[p].args THEN Stay(p, Rest(p)) /\ UNCHANGED <<freelist, space, kstack>>
                     ELSE Fail(p, 0)

\* The end of growproc(), of fork() and of exec(), which drops the old image.
Commit(p) ==
  /\ Goal(p) \in {"grown", "born", "commit"}
  /\ space' = CASE Goal(p) = "grown" -> [space EXCEPT ![p].sz = call[p].a]
                [] Goal(p) = "born" -> [space EXCEPT ![call[p].child] = call[p].new]
                [] Goal(p) = "commit" -> [space EXCEPT ![p] = call[p].new]
  /\ kfree(IF Goal(p) = "commit" THEN freevm(space[p]) ELSE 0)
  /\ Stay(p, Idle) /\ UNCHANGED kstack

\* exit(), and wait() in the parent, which frees the stack and the directory.
Reap(p) ==
  /\ p # 1 /\ kstack[p] /\ call[p] = Idle /\ space[p].dir = 1
  /\ kfree(1 + freevm(space[p]))
  /\ kstack' = [kstack EXCEPT ![p] = FALSE] /\ space' = [space EXCEPT ![p] = NoSpace]
  /\ UNCHANGED call

Next == \E p \in Task :
  \/ \E c \in Task : Fork(p, c)
  \/ \E prog \in Programs : Exec(p, prog)
  \/ \E n \in Increments : Sbrk(p, n)
  \/ SetupKvm(p) \/ SetupFails(p) \/ Enter(p) \/ UserPage(p) \/ MapPage(p)
  \/ Grown(p) \/ Args(p) \/ Commit(p) \/ Reap(p)

Spec == Init /\ [][Next]_memVars

-----------------------------------------------------------------------------
\* The pages in use, by their uses.
Size(s) == s.dir + Cardinality(s.tab) + Cardinality(s.pte)
InUse == FoldFunction(+, 0, [p \in Task |->
  Size(space[p]) + Size(call[p].new) + call[p].mem + (IF kstack[p] THEN 1 ELSE 0)])

\* However forks, execs, sbrks and exits interleave, and at whichever kalloc()
\* the memory runs out, no path loses a page or frees one twice.
FramesConserved == freelist + InUse = NFRAMES

\* What copyuvm() and mappages() panic about cannot happen: between calls the
\* pages of a process are exactly those below its sz, each under a page table,
\* however sz was reached; unless the process gave all its memory back, when
\* sbrk() frees the pages but keeps sz.  And sys_pgcnt() counts them all but
\* the guard page that exec() put under the stack and fork() copies.
SizeMapped ==
  \A p \in Task : Runs(p) =>
    /\ space[p].pte = {v \in Page : v * PGSIZE < space[p].sz}
    /\ {v \div NPTENTRIES : v \in space[p].pte} \subseteq space[p].tab
    /\ sys_pgcnt(space[p]) \in {Cardinality(space[p].pte), Cardinality(space[p].pte) - 1}
=============================================================================
