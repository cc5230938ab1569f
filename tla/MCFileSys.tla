------------------------------ MODULE MCFileSys -----------------------------
(* FileSys with two processes: the root holds the file a and the directory d,  *)
(* which is empty; or held the directory e, removed with a process in it.      *)
EXTENDS FileSys, TLC

Flat == [i \in Inum |->
  CASE i = 1 -> [type |-> "dir", nlink |-> 2,
                 ents |-> <<Entry(".", 1), Entry("..", 1), Entry("a", 2), Entry("d", 3)>>]
    [] i = 2 -> [type |-> "file", nlink |-> 1, ents |-> <<>>]
    [] i = 3 -> [type |-> "dir", nlink |-> 1, ents |-> <<Entry(".", 3), Entry("..", 1)>>]
    [] OTHER -> Free]
Deep == [Flat EXCEPT ![3].ents = Append(@, Entry("none", 0)),
                     ![4] = [type |-> "dir", nlink |-> 0, ents |-> <<Entry(".", 4), Entry("..", 3)>>]]

\* The cache after start-up, and after mkdir("/d/e"), chdir("/d/e") and
\* unlink("/d/e"): the entry of d is unused.
Cached(i, ref) == [inum |-> i, ref |-> ref, valid |-> TRUE, type |-> "dir", nlink |-> Deep[i].nlink]
DeepCache == [s \in Slot |-> CASE s = 1 -> Cached(1, Cardinality(Proc) - 1)
                               [] s = 2 -> Cached(3, 0)
                               [] s = 3 -> Cached(4, 1)
                               [] OTHER -> Empty]
Booted == {[disk |-> Flat, icache |-> BootCache, cwd |-> AtRoot, calls |-> 0]}
Before == Booted
          \cup {[disk |-> Deep, icache |-> DeepCache, cwd |-> [AtRoot EXCEPT ![p] = 3], calls |-> 1]
                 : p \in Proc}

R(call, path) == [call |-> call, path |-> path, type |-> "none", omode |-> "none", new |-> <<>>]
Create(path, type) == [R("create", path) EXCEPT !.type = type]
Open(path, omode) == [R("open", path) EXCEPT !.omode = omode]
OpenNew(path) == [R("create", path) EXCEPT !.type = "file", !.omode = "O_RDWR"]
Link(old, new) == [R("link", old) EXCEPT !.new = new]

\* The calls of the main run; some fail on some or all of their paths.
Calls == {OpenNew(<<"/", "d", "x">>), Open(<<"a">>, "O_RDONLY"),
          Create(<<"d", "x">>, "dir"), Link(<<"a">>, <<"/", "d", "x">>),
          R("unlink", <<"a">>), R("unlink", <<"/", "d">>), R("chdir", <<"d">>),
          Open(<<"..">>, "O_RDONLY")}

\* The processes are interchangeable.
Sym == Permutations(Proc)
=============================================================================
