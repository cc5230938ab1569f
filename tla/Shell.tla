-------------------------------- MODULE Shell --------------------------------
(***************************************************************************)
(* The xv6 shell (xv6/sh.c): its recursive-descent parser on the           *)
(* characters of a line, and runcmd() with the descriptors of the child    *)
(* process.  A command is a tree of tuples, a word the pair of positions   *)
(* q, eq in the line.  lab-02/sh.c is this shell with the symbols "<|>"    *)
(* only: it lacks what begins with another symbol, and ">>".               *)
(***************************************************************************)
LOCAL INSTANCE Integers
LOCAL INSTANCE FiniteSets
LOCAL INSTANCE SequencesExt

CONSTANTS Lines,    \* the lines that are typed, sequences of characters
          MAXARGS,
          Symbols,  \* symbols[]
          Appends   \* gettoken() knows ">>"

VARIABLES text,   \* buf
          cmd,    \* what runcmd() has to do; <<>> before the line is parsed
          ofile,  \* the descriptors 0..2 of the process: the word opened there
          fate    \* st: "start", "run", "exec", "exit" or "panic"; failed: open() did

shellVars == <<text, cmd, ofile, fate>>

Whitespace == {" "}
Panic == [t |-> <<"panic">>, p |-> 0]

-----------------------------------------------------------------------------
SkipSpace(s, p) == CHOOSE q \in p..Len(s)+1 :
  /\ q = Len(s) + 1 \/ s[q] \notin Whitespace
  /\ \A i \in p..q-1 : s[i] \in Whitespace

peek(s, p, toks) == LET q == SkipSpace(s, p) IN q <= Len(s) /\ s[q] \in toks \cap Symbols

\* The token at q, which is no white space: its kind, its first and last
\* position, and where the next token is.
TokenAt(s, q) ==
  LET Twice == Appends /\ s[q] = ">" /\ q < Len(s) /\ s[q+1] = ">"
      stop == CHOOSE x \in q..Len(s)+1 :
                /\ x = Len(s) + 1 \/ s[x] \in Whitespace \cup Symbols
                /\ \A i \in q..x-1 : s[i] \notin Whitespace \cup Symbols
      Token(kind, eq) == [tok |-> kind, w |-> <<q, eq>>, ps |-> SkipSpace(s, eq)]
  IN  IF q > Len(s) THEN Token("end", q)
      ELSE IF Twice THEN Token("+", q + 2)
      ELSE IF s[q] \in Symbols THEN Token(s[q], q + 1)
      ELSE Token("a", stop)

gettoken(s, p) == TokenAt(s, SkipSpace(s, p))

\* The constructors; redirections are given from the innermost to the outermost.
execcmd(args) == <<"exec", args>>
redircmd(c, w, fd) == <<"redir", c, w, fd>>
pipecmd(l, r) == <<"pipe", l, r>>
listcmd(l, r) == <<"list", l, r>>
backcmd(c) == <<"back", c>>
Redirected(c, rs) == FoldLeft(LAMBDA acc, r : redircmd(acc, r[1], r[2]), c, rs)

\* Each of the following parses from position p and returns the tree t and the
\* position p after it, or Panic, which ends the shell's child.
Then(r, Rest(_)) == IF r = Panic THEN Panic ELSE Rest(r)

RECURSIVE parseredirs(_, _, _)
parseredirs(rs, s, p) ==
  LET File(tok, file) ==
        IF file.tok # "a" THEN Panic
        ELSE parseredirs(Append(rs, <<file.w, IF tok = "<" THEN 0 ELSE 1>>), s, file.ps)
      Arrow(tok) == File(tok.tok, gettoken(s, tok.ps))
  IN  IF peek(s, p, {"<", ">"}) THEN Arrow(gettoken(s, p)) ELSE [t |-> rs, p |-> p]

RECURSIVE parseargs(_, _, _, _)
parseargs(args, rs, s, p) ==
  LET Word(tok) ==
        IF tok.tok = "end" THEN [t |-> Redirected(execcmd(args), rs), p |-> p]
        ELSE IF tok.tok # "a" \/ Len(args) + 1 >= MAXARGS THEN Panic
        ELSE Then(parseredirs(rs, s, tok.ps),
                  LAMBDA r : parseargs(Append(args, tok.w), r.t, s, r.p))
  IN  IF peek(s, p, {"|", ")", "&", ";"})
      THEN [t |-> Redirected(execcmd(args), rs), p |-> p]
      ELSE Word(gettoken(s, p))

\* The rules call each other through parse, which is defined after them.
RECURSIVE parse(_, _, _)
parseblock(s, p) ==
  LET Close(c) ==
        IF ~peek(s, c.p, {")"}) THEN Panic
        ELSE Then(parseredirs(<<>>, s, gettoken(s, c.p).ps),
                  LAMBDA r : [t |-> Redirected(c.t, r.t), p |-> r.p])
  IN  Then(parse("line", s, gettoken(s, p).ps), Close)

parseexec(s, p) ==
  IF peek(s, p, {"("}) THEN parseblock(s, p)
  ELSE Then(parseredirs(<<>>, s, p), LAMBDA r : parseargs(<<>>, r.t, s, r.p))

parsepipe(s, p) ==
  LET Bar(l) ==
        IF ~peek(s, l.p, {"|"}) THEN l
        ELSE Then(parse("pipe", s, gettoken(s, l.p).ps),
                  LAMBDA r : [t |-> pipecmd(l.t, r.t), p |-> r.p])
  IN  Then(parseexec(s, p), Bar)

RECURSIVE parseback(_, _)
parseback(c, s) ==
  IF peek(s, c.p, {"&"})
  THEN parseback([t |-> backcmd(c.t), p |-> gettoken(s, c.p).ps], s)
  ELSE c

\* What follows a pipe: '&'s, and after a ';' what `rule` parses.
Semicolon(rule, s, c) ==
  IF ~peek(s, c.p, {";"}) THEN c
  ELSE Then(parse(rule, s, gettoken(s, c.p).ps),
            LAMBDA r : [t |-> listcmd(c.t, r.t), p |-> r.p])

\* Faulty: a list ends at its second command.
parselineShort(s, p) ==
  Then(parse("pipe", s, p), LAMBDA c : Semicolon("pipe", s, parseback(c, s)))

parseline(s, p) ==
  Then(parse("pipe", s, p), LAMBDA c : Semicolon("line", s, parseback(c, s)))

parse(rule, s, p) == IF rule = "pipe" THEN parsepipe(s, p) ELSE parseline(s, p)

parsecmd(s) ==
  LET End(c) == IF SkipSpace(s, c.p) = Len(s) + 1 THEN c ELSE Panic
  IN  Then(parse("line", s, 1), End).t

\* Where nulterminate() puts a 0: after every word.
RECURSIVE Words(_)
Words(c) ==
  CASE c[1] = "panic" -> {}
    [] c[1] = "exec"  -> Range(c[2])
    [] c[1] = "redir" -> Words(c[2]) \cup {c[3]}
    [] c[1] \in {"pipe", "list"} -> Words(c[2]) \cup Words(c[3])
    [] c[1] = "back"  -> Words(c[2])
nulterminate(c) == {w[2] : w \in Words(c)}

-----------------------------------------------------------------------------
Closed == <<0, 0>>
Console == <<0, 1>>

Init ==
  /\ text = <<>> /\ cmd = <<>>
  /\ ofile = [d \in 0..2 |-> Closed]
  /\ fate = [st |-> "start", failed |-> FALSE]

\* main(): open the console until three descriptors are in use, whichever were
\* before; then read a line and fork; the child parses and runs it.
main ==
  /\ fate.st = "start" /\ text' \in Lines
  /\ ~IsPrefix(<<"c", "d", " ">>, text') \* which the shell does itself
  /\ ofile' = [d \in 0..2 |-> Console]
  /\ cmd' = parsecmd(text')
  /\ fate' = [fate EXCEPT !.st = IF cmd' = <<"panic">> THEN "panic" ELSE "run"]

\* close(rcmd->fd), then open(): the lowest descriptor that is free, or failure.
Redirect(ok) ==
  LET free == {d \in 0..2 : ofile[d] = Closed} \cup {cmd[4]}
      d == CHOOSE x \in free : \A y \in free : x <= y
  IN  /\ ofile' = IF ok THEN [ofile EXCEPT ![cmd[4]] = Closed, ![d] = cmd[3]]
                        ELSE [ofile EXCEPT ![cmd[4]] = Closed]
      /\ fate' = IF ok THEN fate ELSE [fate EXCEPT !.failed = TRUE]

\* Lists, pipes and the background are not implemented: the left command runs.
runcmd ==
  /\ fate.st = "run"
  /\ \/ /\ cmd[1] = "exec"
        /\ fate' = [fate EXCEPT !.st = IF cmd[2] = <<>> THEN "exit" ELSE "exec"]
        /\ UNCHANGED <<cmd, ofile>>
     \/ cmd[1] = "redir" /\ (\E ok \in BOOLEAN : Redirect(ok)) /\ cmd' = cmd[2]
     \/ /\ cmd[1] \in {"list", "pipe", "back"}
        /\ cmd' = cmd[2] /\ UNCHANGED <<ofile, fate>>
  /\ UNCHANGED text

Next == main \/ runcmd

Spec == Init /\ [][Next]_shellVars

-----------------------------------------------------------------------------
(* The grammar, as the trees that a sequence of tokens stands for:
     line   : pipe '&'* | pipe '&'* ';' line
     pipe   : exec | exec '|' pipe
     exec   : '(' line ')' redirs | words and redirections in any order
   A token starts at every symbol and at the first character of every word; of
   a row of '>' at every second one if the shell knows '>>'.                                           *)
InOrder(S, s) == SelectSeq([i \in 1..Len(s) |-> i], LAMBDA i : i \in S)
Row(s, q) == CHOOSE n \in 0..q-1 : /\ \A i \in q-n..q-1 : s[i] = ">"
                                   /\ n = q - 1 \/ s[q-n-1] # ">"
Starts(s) == {q \in 1..Len(s) :
  \/ s[q] \in Symbols \ {">"}
  \/ s[q] = ">" /\ (Appends => Row(s, q) % 2 = 0)
  \/ /\ s[q] \notin Symbols \cup Whitespace
     /\ q = 1 \/ s[q-1] \in Symbols \cup Whitespace}
WordEnd(s, q) == CHOOSE x \in q+1..Len(s)+1 :
  /\ \A i \in q..x-1 : s[i] \notin Symbols \cup Whitespace
  /\ x = Len(s) + 1 \/ s[x] \in Symbols \cup Whitespace
Tokens(s) ==
  LET at == InOrder(Starts(s), s)
  IN  [i \in 1..Len(at) |-> IF s[at[i]] \in Symbols THEN <<s[at[i]], <<0, 0>>>>
                            ELSE <<"a", <<at[i], WordEnd(s, at[i])>>>>]

Arrow == {"<", ">"}
Args(ts) == {i \in 1..Len(ts) : ts[i][1] = "a" /\ (i = 1 \/ ts[i-1][1] \notin Arrow)}
Arrows(ts) == {i \in 1..Len(ts) : ts[i][1] \in Arrow}
Clauses(ts) == LET at == InOrder(Arrows(ts), ts)
               IN  [i \in 1..Len(at) |-> <<ts[at[i]+1][2], IF ts[at[i]][1] = "<" THEN 0 ELSE 1>>]
Plain(ts) == /\ \A i \in 1..Len(ts) : ts[i][1] \in Arrow \cup {"a"}
             /\ \A i \in Arrows(ts) : i < Len(ts) /\ ts[i+1][1] = "a"
Simple(ts) ==
  LET at == InOrder(Args(ts), ts)
  IN  IF Plain(ts) /\ Len(at) < MAXARGS
      THEN {Redirected(execcmd([i \in 1..Len(at) |-> ts[at[i]][2]]), Clauses(ts))}
      ELSE {}

RECURSIVE Trees(_, _)
Trees(kind, ts) ==
  LET Before(i) == SubSeq(ts, 1, i - 1)
      After(i) == SubSeq(ts, i + 1, Len(ts))
      Where(x) == {i \in 1..Len(ts) : ts[i][1] = x}
  IN
  CASE kind = "exec" -> Simple(ts) \cup
         UNION {IF ts[1][1] = "(" /\ Args(After(i)) = {} /\ Plain(After(i))
                THEN {Redirected(c, Clauses(After(i))) : c \in Trees("line", SubSeq(ts, 2, i - 1))}
                ELSE {} : i \in Where(")")}
    [] kind = "pipe" -> Trees("exec", ts) \cup
         UNION {{pipecmd(l, r) : l \in Trees("exec", Before(i)), r \in Trees("pipe", After(i))} :
                i \in Where("|")}
    [] kind = "backs" -> Trees("pipe", ts) \cup
         (IF ts # <<>> /\ ts[Len(ts)][1] = "&"
          THEN {backcmd(c) : c \in Trees("backs", Before(Len(ts)))} ELSE {})
    [] kind = "line" -> Trees("backs", ts) \cup
         UNION {{listcmd(l, r) : l \in Trees("backs", Before(i)), r \in Trees("line", After(i))} :
                i \in Where(";")}

\* The innermost redirection of descriptor d on the way to the command that runs.
RECURSIVE Target(_, _, _)
Target(c, d, f) == IF c[1] = "exec" THEN f
                   ELSE Target(c[2], d, IF c[1] = "redir" /\ c[4] = d THEN c[3] ELSE f)

\* parsecmd() accepts exactly the lines of the grammar, which is unambiguous, and
\* builds the tree the grammar gives; a 0 that nulterminate() writes cuts no
\* word short; and when no open() failed, the program that runs has every
\* descriptor where its innermost redirection says, and no other changed.
ShellSound ==
  LET tree == parsecmd(text)
  IN
  /\ fate.st # "start" =>
       /\ Trees("line", Tokens(text)) = {tree} \ {<<"panic">>}
       /\ \A w \in Words(tree) : nulterminate(tree) \cap (w[1]..w[2]-1) = {}
  /\ fate.st = "exec" /\ ~fate.failed =>
       \A d \in 0..2 : ofile[d] = Target(tree, d, Console)
=============================================================================
