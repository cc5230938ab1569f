------------------------------ MODULE FileTable ------------------------------
(***************************************************************************)
(* Open files: the file table of xv6/file.c, the descriptors of            *)
(* xv6/sysfile.c, and the calls that hand references on or drop them: open,*)
(* dup, pipe and close, fork and exit, with a full file table, a full      *)
(* descriptor table and a failing kalloc().                                *)
(*                                                                         *)
(* pend[p] is what the call of p has still to do.  A section under         *)
(* ftable.lock is one step; a process's descriptors are its own.           *)
(***************************************************************************)
LOCAL INSTANCE Integers
LOCAL INSTANCE Sequences
LOCAL INSTANCE FiniteSets

CONSTANTS Task,     \* processes
          NFILE,    \* entries of the file table
          NOFILE,   \* descriptors of a process
          NPIPE     \* pages that kalloc() can give to pipes

VARIABLES ftable, ofile, pipes, iref, pend, live

tableVars == <<ftable, ofile, pipes, iref, pend, live>>

FileId == 1..NFILE
Fd == 0..NOFILE-1
PipeId == 1..NPIPE
Unused == [ref |-> 0, type |-> "none", pipe |-> 0, writable |-> FALSE]
NoPipe == [readopen |-> FALSE, writeopen |-> FALSE]

\* One process runs and has nothing open.
Init ==
  /\ ftable = [f \in FileId |-> Unused] /\ ofile = [p \in Task |-> [d \in Fd |-> 0]]
  /\ pipes = [q \in PipeId |-> NoPipe] /\ iref = 0
  /\ pend = [p \in Task |-> <<>>]
  /\ live = {CHOOSE p \in Task : TRUE}

Least(S) == CHOOSE x \in S : \A y \in S : x <= y
Ready(p) == p \in live /\ pend[p] = <<>>
At(p, o) == pend[p] # <<>> /\ pend[p][1][1] = o
Arg(p) == pend[p][1][2]
Then(p, ops) == pend' = [pend EXCEPT ![p] = ops \o Tail(@)]
Begin(p, ops) == Ready(p) /\ pend' = [pend EXCEPT ![p] = ops]

\* filealloc(): the first entry without references.
Vacant == {f \in FileId : ftable[f].ref = 0}
filealloc == [ftable EXCEPT ![Least(Vacant)].ref = 1]

\* filedup(): one more reference.
filedup(f) == [ftable EXCEPT ![f].ref = @ + 1]

\* fdalloc(): the first free descriptor gets the file.
FreeFds(p) == {d \in Fd : ofile[p][d] = 0}
Fits(p, n) == \E d, e \in FreeFds(p) : n = 2 => d # e
fdalloc(ds, f) == [ds EXCEPT ![Least({d \in Fd : ds[d] = 0})] = f]

-----------------------------------------------------------------------------
\* sys_dup() of descriptor d: fdalloc(), then filedup().
Dup(p, d) ==
  /\ Ready(p) /\ ofile[p][d] # 0 /\ Fits(p, 1)
  /\ ofile' = [ofile EXCEPT ![p] = fdalloc(@, ofile[p][d])]
  /\ ftable' = filedup(ofile[p][d])
  /\ UNCHANGED <<pipes, iref, pend, live>>

\* sys_close(): the descriptor is cleared before the reference is dropped.
Close(p, d) ==
  /\ ofile[p][d] # 0 /\ Begin(p, <<<<"fileclose", ofile[p][d]>>>>)
  /\ ofile' = [ofile EXCEPT ![p][d] = 0]
  /\ UNCHANGED <<ftable, pipes, iref, live>>

\* sys_open() with the inode that namei() or create() returned.
Open(p) ==
  /\ Begin(p, <<<<"open", 0>>>>)
  /\ iref' = iref + 1
  /\ UNCHANGED <<ftable, ofile, pipes, live>>

\* The file and the descriptor of sys_open(), or what it drops without them.
OpenFile(p) ==
  /\ At(p, "open")
  /\ IF Vacant # {} /\ Fits(p, 1)
       THEN LET f == Least(Vacant)
            IN  /\ ofile' = [ofile EXCEPT ![p] = fdalloc(@, f)]
                /\ ftable' = [ftable EXCEPT ![f] = [@ EXCEPT !.ref = 1, !.type = "inode"]]
                /\ Then(p, <<>>)
       ELSE /\ UNCHANGED ofile
            /\ ftable' = IF Vacant # {} THEN filealloc ELSE ftable
            /\ Then(p, (IF Vacant # {} THEN <<<<"fileclose", Least(Vacant)>>>> ELSE <<>>)
                         \o <<<<"iput", 0>>>>)
  /\ UNCHANGED <<pipes, iref, live>>

\* pipealloc(): the files of the two ends, one after the other.
Pipe(p) ==
  /\ Ready(p) /\ Vacant # {}
  /\ ftable' = filealloc /\ Begin(p, <<<<"pipe", Least(Vacant)>>>>)
  /\ UNCHANGED <<ofile, pipes, iref, live>>

PipeSecond(p) ==
  /\ At(p, "pipe")
  /\ IF Vacant = {} THEN Then(p, <<<<"fileclose", Arg(p)>>>>) /\ UNCHANGED ftable
                    ELSE /\ ftable' = filealloc
                         /\ Then(p, <<<<"pipepage", <<Arg(p), Least(Vacant)>>>>>>)
  /\ UNCHANGED <<ofile, pipes, iref, live>>

\* pipealloc() with both files: the page, or the error path without one; and
\* the descriptors of sys_pipe(), or its error path.
End(q, w) == [ref |-> 1, type |-> "pipe", pipe |-> q, writable |-> w]
PipePage(p) ==
  /\ At(p, "pipepage")
  /\ LET rf == Arg(p)[1]
         wf == Arg(p)[2]
         free == {q \in PipeId : pipes[q] = NoPipe}
         drop == <<<<"fileclose", rf>>, <<"fileclose", wf>>>>
     IN  IF free = {} THEN Then(p, drop) /\ UNCHANGED <<ftable, ofile, pipes>>
         ELSE LET q == Least(free)
              IN  /\ pipes' = [pipes EXCEPT ![q] = [readopen |-> TRUE, writeopen |-> TRUE]]
                  /\ ftable' = [ftable EXCEPT ![rf] = End(q, FALSE), ![wf] = End(q, TRUE)]
                  /\ IF Fits(p, 2)
                       THEN /\ ofile' = [ofile EXCEPT ![p] = fdalloc(fdalloc(@, rf), wf)]
                            /\ Then(p, <<>>)
                       ELSE Then(p, drop) /\ UNCHANGED ofile
  /\ UNCHANGED <<iref, live>>

-----------------------------------------------------------------------------
\* Faulty: the type of a closed file stays.
filecloseStale(p) ==
  /\ At(p, "fileclose")
  /\ LET f == ftable[Arg(p)]
     IN  /\ ftable' = [ftable EXCEPT ![Arg(p)].ref = @ - 1]
         /\ Then(p, CASE f.ref = 1 /\ f.type = "pipe"  -> <<<<"pipeclose", f>>>>
                      [] f.ref = 1 /\ f.type = "inode" -> <<<<"iput", 0>>>>
                      [] OTHER -> <<>>)
  /\ UNCHANGED <<ofile, pipes, iref, live>>

\* fileclose(): with the last reference gone the entry is free before what it
\* referred to is released, from the copy ff.  (The stale pipe and writable
\* fields of a free entry are not read.)
fileclose(p) ==
  /\ At(p, "fileclose")
  /\ LET f == ftable[Arg(p)]
     IN  /\ ftable' = [ftable EXCEPT ![Arg(p)] =
              IF f.ref > 1 THEN [f EXCEPT !.ref = @ - 1] ELSE Unused]
         /\ Then(p, CASE f.ref = 1 /\ f.type = "pipe"  -> <<<<"pipeclose", f>>>>
                      [] f.ref = 1 /\ f.type = "inode" -> <<<<"iput", 0>>>>
                      [] OTHER -> <<>>)
  /\ UNCHANGED <<ofile, pipes, iref, live>>

\* pipeclose(): one end; the page is free again when both are closed.
pipeclose(p) ==
  /\ At(p, "pipeclose")
  /\ pipes' = [pipes EXCEPT ![Arg(p).pipe] =
       IF Arg(p).writable THEN [@ EXCEPT !.writeopen = FALSE] ELSE [@ EXCEPT !.readopen = FALSE]]
  /\ Then(p, <<>>)
  /\ UNCHANGED <<ftable, ofile, iref, live>>

\* begin_op(); iput(); end_op().
iput(p) ==
  /\ At(p, "iput")
  /\ iref' = iref - 1 /\ Then(p, <<>>)
  /\ UNCHANGED <<ftable, ofile, pipes, live>>

-----------------------------------------------------------------------------
\* fork() duplicates every descriptor; the references of the parent keep the
\* files open while it does.
Fork(p, c) ==
  /\ Ready(p) /\ c \in Task \ live /\ pend[c] = <<>>
  /\ live' = live \cup {c}
  /\ ofile' = [ofile EXCEPT ![c] = ofile[p]]
  /\ ftable' = [f \in FileId |->
       [ftable[f] EXCEPT !.ref = @ + Len(SelectSeq([d \in 1..NOFILE |-> ofile[p][d-1]],
                                                   LAMBDA g : g = f))]]
  /\ UNCHANGED <<pipes, iref, pend>>

\* exit(): every open descriptor is closed; the process then runs no more.
Exit(p) ==
  /\ \E q \in live : q # p
  /\ LET open == SelectSeq([d \in 1..NOFILE |-> ofile[p][d-1]], LAMBDA g : g # 0)
     IN  Begin(p, [k \in DOMAIN open |-> <<"fileclose", open[k]>>])
  /\ ofile' = [ofile EXCEPT ![p] = [d \in Fd |-> 0]]
  /\ live' = live \ {p}
  /\ UNCHANGED <<ftable, pipes, iref>>

Next == \E p \in Task :
  \/ \E d \in Fd : Dup(p, d) \/ Close(p, d)
  \/ Open(p) \/ OpenFile(p) \/ Pipe(p) \/ PipeSecond(p) \/ PipePage(p)
  \/ fileclose(p) \/ pipeclose(p) \/ iput(p)
  \/ \E c \in Task : Fork(p, c)
  \/ Exit(p)

Spec == Init /\ [][Next]_tableVars

-----------------------------------------------------------------------------
\* The places that hold a reference to file f: descriptors, and calls that
\* have yet to close it or to give it a descriptor.
Count(S, P(_)) == Cardinality({x \in S : P(x)})
Pending == {pk \in Task \X (1..NOFILE+2) : pk[2] \in DOMAIN pend[pk[1]]}
Op(pk) == pend[pk[1]][pk[2]]
Holders(f) ==
  Count(Task \X Fd, LAMBDA pd : ofile[pd[1]][pd[2]] = f)
    + Count(Pending, LAMBDA pk : \/ Op(pk)[1] \in {"fileclose", "pipe"} /\ Op(pk)[2] = f
                                 \/ Op(pk)[1] = "pipepage" /\ f \in {Op(pk)[2][1], Op(pk)[2][2]})

\* However opens, dups, forks, exits, closes and their error paths interleave,
\* the ref of a file is the number of places that refer to it, so a descriptor
\* never names a free or reused entry; an end of a pipe is open exactly while a
\* file, or a fileclose() that has yet to call pipeclose(), refers to it; and
\* every inode file holds one reference of its inode until its iput().
DescriptorsSound ==
  /\ \A f \in FileId : ftable[f].ref = Holders(f)
  /\ \A q \in PipeId, w \in BOOLEAN :
       (IF w THEN pipes[q].writeopen ELSE pipes[q].readopen) <=>
          \/ \E f \in FileId : /\ ftable[f].ref > 0 /\ ftable[f].type = "pipe"
                               /\ ftable[f].pipe = q /\ ftable[f].writable = w
          \/ \E pk \in Pending : /\ Op(pk)[1] = "pipeclose"
                                 /\ Op(pk)[2].pipe = q /\ Op(pk)[2].writable = w
  /\ iref = Count(FileId, LAMBDA f : ftable[f].ref > 0 /\ ftable[f].type = "inode")
              + Count(Pending, LAMBDA pk : Op(pk)[1] \in {"open", "iput"})
=============================================================================
