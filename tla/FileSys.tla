------------------------------- MODULE FileSys -------------------------------
(***************************************************************************)
(* Inodes, directories and path names (xv6/fs.c) and the system calls that *)
(* use them (xv6/sysfile.c): open, mkdir, mknod, link, unlink, chdir and   *)
(* close, with the inode cache and its sleep locks, run by several         *)
(* processes and cut short by crashes.                                     *)
(*                                                                         *)
(* todo[p] is what the call of p still has to do: its head is the next     *)
(* step, and a function that is called puts its steps in front.  Code      *)
(* between two points at which the process can wait, or at which another   *)
(* process can see the inode cache, is one step.  A transaction is what    *)
(* Journal.tla promises: the blocks logged so far reach the disk together  *)
(* when no call is left in the file system (end_op), or not at all.  What  *)
(* a file contains is InodeData.tla's; here only directories have content. *)
(***************************************************************************)
EXTENDS Integers, Sequences, FiniteSets, FiniteSetsExt, Functions

CONSTANTS Proc,       \* the processes
          NoProc,     \* owner of a free sleep lock
          NINODES,    \* inodes of the disk, sb.ninodes - 1
          NINODE,     \* entries of the inode cache
          NFILE,      \* entries of the file table; a process has one descriptor
          Request,    \* the calls the processes make
          Starts,     \* what earlier calls left: disk, inode cache and directories,
                      \* with how many of the calls they count for
          MaxCalls,   \* bound on the number of calls
          MaxCrashes  \* bound on the number of crashes

Inum == 1..NINODES
ROOTINO == 1
Slot == 1..NINODE
NoSlot == 0

VARIABLES
  disk,    \* the inodes and directories that a crash leaves
  logged,  \* the same in the buffer cache, with the open transaction's writes
  icache,  \* the inode cache: inum, ref, valid and the copy of type and nlink
  owner,   \* the holder of ip->lock
  cwd,     \* proc->cwd
  file,    \* the inode behind the process's open descriptor
  todo,    \* what the call of the process has still to do
  loc,     \* the local variables of the call
  calls, crashes

vars == <<disk, logged, icache, owner, cwd, file, todo, loc, calls, crashes>>

Free == [type |-> "none", nlink |-> 0, ents |-> <<>>]
Entry(name, inum) == [name |-> name, inum |-> inum]
Empty == [inum |-> 0, ref |-> 0, valid |-> FALSE, type |-> "none", nlink |-> 0]
NoCall == [call |-> "none", type |-> "none", omode |-> "none", path |-> <<>>,
           parent |-> FALSE, name |-> "none", ip |-> NoSlot, dp |-> NoSlot,
           old |-> NoSlot,
           via |-> "none"]   \* history: the name that led to ip

\* After start-up every process has the root directory as its current
\* directory: userinit() gives it to the first one, fork() hands it on.
BootCache == [s \in Slot |-> IF s = 1 THEN [Empty EXCEPT !.inum = ROOTINO, !.ref = Cardinality(Proc)]
                                      ELSE Empty]
NobodyLocks == [s \in Slot |-> NoProc]
AtRoot == [p \in Proc |-> 1]
NoFiles == [p \in Proc |-> NoSlot]
Idle == [p \in Proc |-> <<>>]
NoCalls == [p \in Proc |-> NoCall]

Init ==
  /\ \E s \in Starts : disk = s.disk /\ logged = s.disk /\ icache = s.icache /\ cwd = s.cwd /\ calls = s.calls
  /\ owner = NobodyLocks /\ file = NoFiles
  /\ todo = Idle /\ loc = NoCalls
  /\ crashes = 0

-----------------------------------------------------------------------------
\* The next step of p's call is o; the step after it.
At(p, o) == todo[p] # <<>> /\ todo[p][1][1] = o
Arg(p) == todo[p][1][2]
Then(p, ops) == todo' = [todo EXCEPT ![p] = ops \o Tail(@)]
Step(o) == <<o, NoSlot>>
Set(p, l) == loc' = [loc EXCEPT ![p] = l]

\* panic(): the call never goes on, with its locks and its transaction; other
\* CPUs run until they print.
Panic(p, why) == todo' = [todo EXCEPT ![p] = <<<<"panic", why>>>>]

\* iget(): the cache entry of inode i, and the cache with one more reference.
Entries(i) == {s \in Slot : icache[s].ref > 0 /\ icache[s].inum = i}
Unused == {s \in Slot : icache[s].ref = 0}
Room(i) == Entries(i) # {} \/ Unused # {}
Found(i) == IF Entries(i) # {} THEN Min(Entries(i)) ELSE Min(Unused)
iget(i) ==
  IF Entries(i) # {}
    THEN [icache EXCEPT ![Found(i)].ref = @ + 1]
    ELSE [icache EXCEPT ![Found(i)] = [@ EXCEPT !.inum = i, !.ref = 1, !.valid = FALSE]]

\* idup(): one more reference to a cached inode.
idup(s) == [icache EXCEPT ![s].ref = @ + 1]

\* ialloc(): the free inodes of the disk, one of which gets a type.
FreeInodes == {i \in Inum : logged[i].type = "none"}
ialloc(i, type) == [logged EXCEPT ![i] = [Free EXCEPT !.type = type]]

\* dirlookup(): the offset of name in a directory, 0 if it is not there; an
\* entry with inode number 0 is not in use.
dirlookup(ents, name) ==
  LET at == {k \in DOMAIN ents : ents[k].inum # 0 /\ ents[k].name = name}
  IN  IF at = {} THEN 0 ELSE Min(at)

\* dirlink()'s write: the first unused entry, or a new one at the end.
dirlink(ents, name, i) ==
  LET unused == {k \in DOMAIN ents : ents[k].inum = 0}
  IN  IF unused = {} THEN Append(ents, Entry(name, i))
                     ELSE [ents EXCEPT ![Min(unused)] = Entry(name, i)]

\* isdirempty(): nothing behind "." and "..".
isdirempty(ents) == \A k \in DOMAIN ents : k > 2 => ents[k].inum = 0

\* Faulty: the changed copy is not written.
iupdateNot(l, c) == l

\* iupdate() of a cached inode whose copy is c.
iupdate(l, c) == [l EXCEPT ![c.inum].type = c.type, ![c.inum].nlink = c.nlink]

\* The way out of a call: drop the references in ss, close the transaction.
Leave(p, ss) == Then(p, [k \in DOMAIN ss |-> <<"iput", ss[k]>>] \o <<Step("end_op")>>)

-----------------------------------------------------------------------------
\* A path name to resolve: to its inode, or to the directory it is in.
namei(path) == <<"namex", [path |-> path, parent |-> FALSE]>>
nameiparent(path) == <<"namex", [path |-> path, parent |-> TRUE]>>

\* A process enters a call: begin_op() and its first path name.  open() of a
\* file to be created, mkdir() and mknod() are create().
Call(p, r) ==
  /\ todo[p] = <<>> /\ calls < MaxCalls
  /\ calls' = calls + 1
  /\ Set(p, [NoCall EXCEPT !.call = r.call, !.type = r.type, !.omode = r.omode])
  /\ todo' = [todo EXCEPT ![p] =
       <<IF r.call \in {"create", "unlink"} THEN nameiparent(r.path) ELSE namei(r.path), <<r.call, r>>>>]
  /\ UNCHANGED <<disk, logged, icache, owner, cwd, file, crashes>>

\* sys_close() of the process's file: fileclose() drops the inode in a
\* transaction.
Close(p) ==
  /\ todo[p] = <<>> /\ calls < MaxCalls /\ file[p] # NoSlot
  /\ calls' = calls + 1
  /\ Set(p, [NoCall EXCEPT !.call = "close"])
  /\ file' = [file EXCEPT ![p] = NoSlot]
  /\ todo' = [todo EXCEPT ![p] = <<<<"iput", file[p]>>, Step("end_op")>>]
  /\ UNCHANGED <<disk, logged, icache, owner, cwd, crashes>>

\* namex()'s loop at its head: when skipelem() finds no element left it ends,
\* and nameiparent() drops what it has; otherwise the directory is locked.
Walk(l) ==
  CASE l.path # <<>>             -> <<<<"ilock", l.ip>>, Step("lookup")>>
    [] l.path = <<>> /\ l.parent -> <<<<"iput", l.ip>>>>
    [] OTHER                     -> <<>>
Walked(l) == IF l.path = <<>> /\ l.parent THEN [l EXCEPT !.ip = NoSlot] ELSE l

\* namex()'s start: the root directory or the current one gets a reference.
NamexStart(p) ==
  /\ At(p, "namex")
  /\ LET path == Arg(p).path
         root == path[1] = "/"
         s == IF root THEN Found(ROOTINO) ELSE cwd[p]
         l == [loc[p] EXCEPT !.ip = s, !.parent = Arg(p).parent,
                             !.path = IF root THEN Tail(path) ELSE path]
     IN  IF root /\ ~Room(ROOTINO)
           THEN Panic(p, "iget") /\ UNCHANGED <<icache, loc>>
           ELSE /\ icache' = IF root THEN iget(ROOTINO) ELSE idup(s)
                /\ Set(p, Walked(l)) /\ Then(p, Walk(l))
  /\ UNCHANGED <<disk, logged, owner, cwd, file, calls, crashes>>

\* The body of namex()'s loop with the directory locked, up to iunlock().
Lookup(p) ==
  /\ At(p, "lookup")
  /\ LET l == loc[p]
         dp == icache[l.ip]
         k == dirlookup(logged[dp.inum].ents, Head(l.path))
         next == logged[dp.inum].ents[k].inum
         last == l.parent /\ Len(l.path) = 1
         there == [l EXCEPT !.path = Tail(@), !.ip = Found(next), !.via = Head(l.path)]
     IN  CASE dp.type = "dir" /\ last ->   \* stop one level early
                /\ Set(p, [l EXCEPT !.path = <<>>, !.name = Head(l.path)])
                /\ Then(p, <<>>) /\ UNCHANGED icache
           [] dp.type = "dir" /\ ~last /\ k # 0 ->
                IF Room(next)
                  THEN /\ icache' = iget(next)
                       /\ Set(p, there) /\ Then(p, <<<<"iput", l.ip>>>> \o Walk(there))
                  ELSE Panic(p, "iget") /\ UNCHANGED <<icache, loc>>
           [] OTHER ->
                /\ Set(p, [l EXCEPT !.ip = NoSlot])
                /\ Then(p, <<<<"iput", l.ip>>>>) /\ UNCHANGED icache
  /\ owner' = [owner EXCEPT ![loc[p].ip] = NoProc]
  /\ UNCHANGED <<disk, logged, cwd, file, calls, crashes>>

-----------------------------------------------------------------------------
\* ilock(s) and then ops: wait for the sleep lock, read the inode if the copy
\* is not valid.
Locks(p, s, ops) ==
  LET d == logged[icache[s].inum] IN
  IF icache[s].ref < 1
    THEN Panic(p, "ilock") /\ UNCHANGED <<icache, owner>>
    ELSE /\ owner[s] = NoProc
         /\ owner' = [owner EXCEPT ![s] = p]
         /\ icache' = IF icache[s].valid THEN icache
                      ELSE [icache EXCEPT ![s] = [@ EXCEPT !.valid = TRUE, !.type = d.type, !.nlink = d.nlink]]
         /\ IF ~icache[s].valid /\ d.type = "none" THEN Panic(p, "no type") ELSE Then(p, ops)

ilock(p) ==
  /\ At(p, "ilock")
  /\ Locks(p, Arg(p), <<>>)
  /\ UNCHANGED <<disk, logged, cwd, file, loc, calls, crashes>>

\* Faulty: iput() frees the inode of an open file when its last link is gone.
iputNoRef(p) ==
  /\ At(p, "iput") /\ owner[Arg(p)] = NoProc
  /\ IF icache[Arg(p)].valid /\ icache[Arg(p)].nlink = 0
       THEN owner' = [owner EXCEPT ![Arg(p)] = p] /\ Then(p, <<<<"ifree", Arg(p)>>>>)
       ELSE Then(p, <<<<"unref", Arg(p)>>>>) /\ UNCHANGED owner
  /\ UNCHANGED <<disk, logged, icache, cwd, file, loc, calls, crashes>>

\* iput() under the sleep lock: the test, which has icache.lock only while it
\* reads ref.  The lock is kept if the inode is to be freed.
iput(p) ==
  /\ At(p, "iput") /\ owner[Arg(p)] = NoProc
  /\ IF icache[Arg(p)].valid /\ icache[Arg(p)].nlink = 0 /\ icache[Arg(p)].ref = 1
       THEN owner' = [owner EXCEPT ![Arg(p)] = p] /\ Then(p, <<<<"ifree", Arg(p)>>>>)
       ELSE Then(p, <<<<"unref", Arg(p)>>>>) /\ UNCHANGED owner
  /\ UNCHANGED <<disk, logged, icache, cwd, file, loc, calls, crashes>>

\* The inode is truncated and freed on the disk; its number can be allocated
\* again from here on, while the copy is still valid.
ifree(p) ==
  /\ At(p, "ifree")
  /\ logged' = [logged EXCEPT ![icache[Arg(p)].inum] = Free]
  /\ icache' = [icache EXCEPT ![Arg(p)].type = "none"]
  /\ Then(p, <<<<"irelease", Arg(p)>>>>)
  /\ UNCHANGED <<disk, owner, cwd, file, loc, calls, crashes>>

\* ip->valid = 0 and releasesleep().
irelease(p) ==
  /\ At(p, "irelease")
  /\ owner' = [owner EXCEPT ![Arg(p)] = NoProc]
  /\ icache' = [icache EXCEPT ![Arg(p)].valid = FALSE]
  /\ Then(p, <<<<"unref", Arg(p)>>>>)
  /\ UNCHANGED <<disk, logged, cwd, file, loc, calls, crashes>>

\* The decrement of ref that ends iput().
unref(p) ==
  /\ At(p, "unref")
  /\ icache' = [icache EXCEPT ![Arg(p)].ref = @ - 1]
  /\ Then(p, <<>>)
  /\ UNCHANGED <<disk, logged, owner, cwd, file, loc, calls, crashes>>

\* iunlock() of an inode that was kept locked across a call of iput().
iunlock(p) ==
  /\ At(p, "iunlock")
  /\ owner' = [owner EXCEPT ![Arg(p)] = NoProc]
  /\ Then(p, <<>>)
  /\ UNCHANGED <<disk, logged, icache, cwd, file, loc, calls, crashes>>

\* end_op(): the last call to leave commits what has been logged.  chdir()
\* then stores the new current directory.
end_op(p) ==
  /\ At(p, "end_op")
  /\ disk' = IF \A q \in Proc \ {p} : todo[q] = <<>> THEN logged ELSE disk
  /\ cwd' = IF Arg(p) = NoSlot THEN cwd ELSE [cwd EXCEPT ![p] = Arg(p)]
  /\ Then(p, <<>>) /\ Set(p, NoCall)
  /\ UNCHANGED <<logged, icache, owner, file, calls, crashes>>

-----------------------------------------------------------------------------
\* The system calls.  A call that has its path's inode locks it and goes on;
\* one that has none ends.
Resolved(p, call, next) ==
  /\ At(p, call)
  /\ IF loc[p].ip = NoSlot THEN Leave(p, <<>>) /\ UNCHANGED <<icache, owner>>
                           ELSE Locks(p, loc[p].ip, <<<<next, Arg(p)>>>>)
  /\ UNCHANGED <<disk, logged, cwd, file, loc, calls, crashes>>

\* sys_open() with the inode locked: a directory can only be read, and the
\* process needs a struct file and a descriptor.
sys_open(p) ==
  /\ At(p, "open2")
  /\ LET s == loc[p].ip
         full == Cardinality({q \in Proc : file[q] # NoSlot}) = NFILE \/ file[p] # NoSlot
     IN  /\ IF (icache[s].type = "dir" /\ loc[p].omode # "O_RDONLY") \/ full
              THEN Leave(p, <<s>>) /\ UNCHANGED file
              ELSE Leave(p, <<>>) /\ file' = [file EXCEPT ![p] = s]
         /\ owner' = [owner EXCEPT ![s] = NoProc]
  /\ UNCHANGED <<disk, logged, icache, cwd, loc, calls, crashes>>

\* sys_chdir() with the inode locked.
sys_chdir(p) ==
  /\ At(p, "chdir2")
  /\ LET s == loc[p].ip IN
     /\ IF icache[s].type # "dir" THEN Leave(p, <<s>>)
                                  ELSE Then(p, <<<<"iput", cwd[p]>>, <<"end_op", s>>>>)
     /\ owner' = [owner EXCEPT ![s] = NoProc]
  /\ UNCHANGED <<disk, logged, icache, cwd, file, loc, calls, crashes>>

\* create() with the parent locked: the name exists, or an inode is allocated
\* (ialloc) and locked too.
create(p) ==
  /\ At(p, "create2")
  /\ LET l == loc[p]
         dents == logged[icache[l.ip].inum].ents
         k == dirlookup(dents, l.name)
         i == IF k # 0 THEN dents[k].inum ELSE Min(FreeInodes)
     IN  IF k = 0 /\ FreeInodes = {}
           THEN Panic(p, "ialloc") /\ UNCHANGED <<logged, icache, owner, loc>>
           ELSE /\ logged' = IF k # 0 THEN logged ELSE ialloc(i, l.type)
                /\ IF ~Room(i) THEN Panic(p, "iget") /\ UNCHANGED <<icache, owner, loc>>
                   ELSE /\ icache' = iget(i)
                        /\ Set(p, [l EXCEPT !.ip = Found(i), !.dp = l.ip, !.via = l.name])
                        /\ IF k # 0
                             THEN /\ owner' = [owner EXCEPT ![l.ip] = NoProc]
                                  /\ Then(p, <<<<"iput", l.ip>>, <<"ilock", Found(i)>>, Step("exists")>>)
                             ELSE /\ Then(p, <<<<"ilock", Found(i)>>, Step("fresh")>>)
                                  /\ UNCHANGED owner
  /\ UNCHANGED <<disk, cwd, file, calls, crashes>>

\* create() of a name that exists: only open() of a file is content with it.
exists(p) ==
  /\ At(p, "exists")
  /\ LET s == loc[p].ip IN
     IF loc[p].type = "file" /\ icache[s].type = "file"
       THEN Then(p, <<Step("open2")>>) /\ UNCHANGED owner
       ELSE Leave(p, <<s>>) /\ owner' = [owner EXCEPT ![s] = NoProc]
  /\ UNCHANGED <<disk, logged, icache, cwd, file, loc, calls, crashes>>

\* sys_mkdir() and sys_mknod() drop the inode that create() returns locked.
sys_mkdir(s) == <<<<"iunlock", s>>, <<"iput", s>>, Step("end_op")>>

\* create() of a new inode with both locks: its link count, the entries of a
\* new directory, and the entry in the parent.  mkdir() and mknod() then drop
\* the inode; open() goes on with it.
fresh(p) ==
  /\ At(p, "fresh")
  /\ LET l == loc[p]
         ip == [icache[l.ip] EXCEPT !.nlink = 1]
         dp == IF l.type = "dir" THEN [icache[l.dp] EXCEPT !.nlink = @ + 1] ELSE icache[l.dp]
     IN  /\ icache' = [icache EXCEPT ![l.ip] = ip, ![l.dp] = dp]
         /\ logged' = [iupdate(iupdate(logged, ip), dp) EXCEPT
                         ![ip.inum].ents = IF l.type = "dir" THEN <<Entry(".", ip.inum), Entry("..", dp.inum)>>
                                                             ELSE <<>>,
                         ![dp.inum].ents = dirlink(@, l.name, ip.inum)]
         /\ Then(p, <<<<"iput", l.dp>>>> \o IF l.omode # "none" THEN <<Step("open2")>> ELSE sys_mkdir(l.ip))
         /\ owner' = [owner EXCEPT ![l.dp] = NoProc]
  /\ UNCHANGED <<disk, cwd, file, loc, calls, crashes>>

\* sys_link(): the new link is counted before it is made.
sys_link(p) ==
  /\ At(p, "link2")
  /\ LET s == loc[p].ip
         ip == [icache[s] EXCEPT !.nlink = @ + 1]
     IN  /\ IF ip.type = "dir"
              THEN Leave(p, <<s>>) /\ UNCHANGED <<logged, icache, loc>>
              ELSE /\ icache' = [icache EXCEPT ![s] = ip]
                   /\ logged' = iupdate(logged, ip)
                   /\ Set(p, [loc[p] EXCEPT !.old = s])
                   /\ Then(p, <<nameiparent(Arg(p).new), Step("linkdir")>>)
         /\ owner' = [owner EXCEPT ![s] = NoProc]
  /\ UNCHANGED <<disk, cwd, file, calls, crashes>>

\* sys_link() locks the directory of the new name, or gives up.
linkdir(p) ==
  /\ At(p, "linkdir")
  /\ IF loc[p].ip = NoSlot THEN Locks(p, loc[p].old, <<Step("bad")>>)
                           ELSE Locks(p, loc[p].ip, <<Step("linkname")>>)
  /\ UNCHANGED <<disk, logged, cwd, file, loc, calls, crashes>>

\* dirlink() in sys_link(): an entry of that name is looked up and dropped
\* with the directory locked, and the call fails.
linkname(p) ==
  /\ At(p, "linkname")
  /\ LET l == loc[p]
         d == icache[l.ip].inum
         k == dirlookup(logged[d].ents, l.name)
         i == logged[d].ents[k].inum
     IN  IF k # 0
           THEN IF Room(i)
                  THEN /\ icache' = iget(i)
                       /\ Then(p, <<<<"iput", Found(i)>>, <<"iunlock", l.ip>>, <<"iput", l.ip>>,
                                    <<"ilock", l.old>>, Step("bad")>>)
                       /\ UNCHANGED <<logged, owner>>
                  ELSE Panic(p, "iget") /\ UNCHANGED <<logged, icache, owner>>
           ELSE /\ logged' = [logged EXCEPT ![d].ents = dirlink(@, l.name, icache[l.old].inum)]
                /\ owner' = [owner EXCEPT ![l.ip] = NoProc]
                /\ Leave(p, <<l.ip, l.old>>)
                /\ UNCHANGED icache
  /\ UNCHANGED <<disk, cwd, file, loc, calls, crashes>>

\* The count goes back to what it was.
linkbad(p) ==
  /\ At(p, "bad")
  /\ LET s == loc[p].old
         ip == [icache[s] EXCEPT !.nlink = @ - 1]
     IN  /\ icache' = [icache EXCEPT ![s] = ip]
         /\ logged' = iupdate(logged, ip)
         /\ owner' = [owner EXCEPT ![s] = NoProc]
         /\ Leave(p, <<s>>)
  /\ UNCHANGED <<disk, cwd, file, loc, calls, crashes>>

\* sys_unlink() with the parent locked: find the inode and lock it too.
sys_unlink(p) ==
  /\ At(p, "unlink2")
  /\ LET l == loc[p]
         dents == logged[icache[l.ip].inum].ents
         k == dirlookup(dents, l.name)
     IN  IF l.name \in {".", ".."} \/ k = 0
           THEN Leave(p, <<l.ip>>) /\ owner' = [owner EXCEPT ![l.ip] = NoProc] /\ UNCHANGED <<icache, loc>>
           ELSE IF Room(dents[k].inum)
             THEN /\ icache' = iget(dents[k].inum)
                  /\ Set(p, [l EXCEPT !.ip = Found(dents[k].inum), !.dp = l.ip, !.via = l.name])
                  /\ Then(p, <<<<"ilock", Found(dents[k].inum)>>, Step("erase")>>)
                  /\ UNCHANGED owner
             ELSE Panic(p, "iget") /\ UNCHANGED <<icache, loc, owner>>
  /\ UNCHANGED <<disk, logged, cwd, file, calls, crashes>>

\* Both locked: the entry is erased, unless it is a directory in use.
erase(p) ==
  /\ At(p, "erase")
  /\ LET l == loc[p]
         ip == icache[l.ip]
         dp == IF ip.type = "dir" THEN [icache[l.dp] EXCEPT !.nlink = @ - 1] ELSE icache[l.dp]
         k == dirlookup(logged[dp.inum].ents, l.name)
     IN  CASE ip.nlink < 1 -> Panic(p, "unlink") /\ UNCHANGED <<logged, icache, owner>>
           [] ip.nlink >= 1 /\ ip.type = "dir" /\ ~isdirempty(logged[ip.inum].ents) ->
                /\ owner' = [owner EXCEPT ![l.ip] = NoProc]
                /\ Then(p, <<<<"iput", l.ip>>, <<"iunlock", l.dp>>, <<"iput", l.dp>>, Step("end_op")>>)
                /\ UNCHANGED <<logged, icache>>
           [] OTHER ->
                /\ logged' = [iupdate(logged, dp) EXCEPT ![dp.inum].ents[k] = Entry("none", 0)]
                /\ icache' = [icache EXCEPT ![l.dp] = dp]
                /\ owner' = [owner EXCEPT ![l.dp] = NoProc]
                /\ Then(p, <<<<"iput", l.dp>>, Step("uncount")>>)
  /\ UNCHANGED <<disk, cwd, file, loc, calls, crashes>>

\* The last part of sys_unlink(), the inode still locked.
uncount(p) ==
  /\ At(p, "uncount")
  /\ LET s == loc[p].ip
         ip == [icache[s] EXCEPT !.nlink = @ - 1]
     IN  /\ icache' = [icache EXCEPT ![s] = ip]
         /\ logged' = iupdate(logged, ip)
         /\ owner' = [owner EXCEPT ![s] = NoProc]
         /\ Leave(p, <<s>>)
  /\ UNCHANGED <<disk, cwd, file, loc, calls, crashes>>

\* The machine stops and starts again from the disk.
Crash ==
  /\ crashes < MaxCrashes
  /\ crashes' = crashes + 1
  /\ logged' = disk
  /\ icache' = BootCache /\ owner' = NobodyLocks
  /\ cwd' = AtRoot /\ file' = NoFiles
  /\ todo' = Idle /\ loc' = NoCalls
  /\ UNCHANGED <<disk, calls>>

\* No call is left to make.
Rest == calls = MaxCalls /\ todo = Idle /\ UNCHANGED vars

Proceed(p) ==
  \/ NamexStart(p) \/ Lookup(p)
  \/ ilock(p) \/ iput(p) \/ ifree(p) \/ irelease(p) \/ unref(p) \/ iunlock(p) \/ end_op(p)
  \/ Resolved(p, "open", "open2") \/ Resolved(p, "chdir", "chdir2") \/ Resolved(p, "create", "create2")
  \/ Resolved(p, "link", "link2") \/ Resolved(p, "unlink", "unlink2")
  \/ sys_open(p) \/ sys_chdir(p) \/ create(p) \/ exists(p) \/ fresh(p)
  \/ sys_link(p) \/ linkdir(p) \/ linkname(p) \/ linkbad(p)
  \/ sys_unlink(p) \/ erase(p) \/ uncount(p)

Next == Crash \/ Rest \/ \E p \in Proc : Proceed(p) \/ Close(p) \/ \E r \in Request : Call(p, r)

Spec == Init /\ [][Next]_vars
-----------------------------------------------------------------------------
\* The entries of the directories dirs that lead to inode i, "." left out: it
\* is not counted (sysfile.c:272).
Links(d, dirs, i) ==
  UNION {{<<j, k>> : k \in {k \in DOMAIN d[j].ents : d[j].ents[k].inum = i /\ d[j].ents[k].name # "."}} :
           j \in dirs}

\* The inodes that the directories of d lead to from the root.
Reachable(d) ==
  LET Within[n \in 0..NINODES] ==
        IF n = 0 THEN {ROOTINO}
        ELSE LET near == Within[n - 1] IN
             near \cup (UNION {{e.inum : e \in Range(d[j].ents)} : j \in near} \ {0})
  IN  Within[NINODES]

\* Crash consistency: on the disk, whatever is found from the root is
\* allocated and has at least as many links counted as the directories that
\* are found have entries for it, so that it is not freed under them
\* (iput, fs.c:335); and a directory's "." and ".." are its own.
TreeSound ==
  LET found == Reachable(disk) IN
  \A i \in found :
    /\ disk[i].type # "none"
    /\ disk[i].nlink >= Cardinality(Links(disk, found, i))
    /\ disk[i].type = "dir" =>
         /\ disk[i].ents[1] = Entry(".", i)
         /\ disk[i].ents[2].name = ".." /\ disk[i].ents[2].inum \in found

\* An inode without links is in use by a process, and iput() frees it with the
\* last reference: "iput() frees if the reference and link counts have fallen
\* to zero" (fs.c:119-120, and 327-328).
OrphansHeld ==
  \A i \in Inum : logged[i].type # "none" /\ logged[i].nlink = 0 => Entries(i) # {}

\* When no call is under way, ip->ref is the number of open files and current
\* directories (fs.c:122-127) on every path of the calls, those that fail
\* included, and no sleep lock is held.
RefsBalanced ==
  todo = Idle =>
    \A s \in Slot :
      /\ owner[s] = NoProc
      /\ icache[s].ref = Cardinality({p \in Proc : cwd[p] = s}) + Cardinality({p \in Proc : file[p] = s})

\* An inode that is locked has a reference and a type, and one that is unlinked
\* has a link, so that ilock() (fs.c:294, 310) and sys_unlink() (sysfile.c:212)
\* do not panic.  What can: the inode cache or the disk has no inode left
\* (fs.c:262, 213), and ".." of a removed directory whose parent is gone too.
PanicsKnown ==
  \A p \in Proc : At(p, "panic") =>
    \/ Arg(p) \in {"iget", "ialloc"}
    \/ Arg(p) = "no type" /\ loc[p].via = ".."

\* The inode whose sleep lock p needs for its next step.
Wanted(p) ==
  CASE At(p, "ilock") \/ At(p, "iput") -> Arg(p)
    [] \E call \in {"open", "chdir", "create", "link", "unlink"} : At(p, call) -> loc[p].ip
    [] At(p, "linkdir") -> IF loc[p].ip = NoSlot THEN loc[p].old ELSE loc[p].ip
    [] OTHER -> NoSlot

\* No two processes wait for each other's inodes, and none for its own: iget()
\* and ilock() are separate to "avoid deadlock" (fs.c:149-150).
NoDeadlock ==
  ~ \E p, q \in Proc :
      /\ Wanted(p) # NoSlot /\ owner[Wanted(p)] = q
      /\ Wanted(q) # NoSlot /\ owner[Wanted(q)] = p
=============================================================================
