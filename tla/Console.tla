------------------------------- MODULE Console -------------------------------
(***************************************************************************)
(* The console (xv6/console.c): consoleintr() edits a line in the input    *)
(* buffer, consoleread() hands finished lines to several readers, and      *)
(* consputc() moves the cursor of the screen.                              *)
(*                                                                         *)
(* cons.lock is held by one reader from step to step until it sleeps or    *)
(* returns; an interrupt runs when the lock is free.  The indices r, w and *)
(* e are uints of UINT values and wrap around.                             *)
(***************************************************************************)
LOCAL INSTANCE Integers
LOCAL INSTANCE Sequences

CONSTANTS Reader,     \* processes that read from the console
          Nobody,     \* holder of the free lock
          INPUT_BUF,
          UINT,       \* range of uint, a multiple of INPUT_BUF
          ROWS, COLS, \* the screen
          ReadSizes   \* the n of consoleread()

VARIABLES buf, r, w, e,  \* input
          cons,          \* holder of cons.lock
          rd,            \* each reader: st, target, n and the bytes read
          killed,
          pos,           \* the cursor
          ready, line    \* history: what was entered and not read; the line typed

consoleVars == <<buf, r, w, e, cons, rd, killed, pos, ready, line>>

Echoed == {"x", "nl", "^D"}
Char == Echoed \cup {"cr", "^U", "^H", "^P", "NUL"}
Away == [st |-> "away", target |-> 0, n |-> 0, got |-> <<>>]

Init ==
  /\ buf = [i \in 0..INPUT_BUF-1 |-> "x"] /\ r = 0 /\ w = 0 /\ e = 0
  /\ cons = Nobody /\ rd = [p \in Reader |-> Away] /\ killed = {}
  /\ pos \in {0, ROWS * COLS - 1}
  /\ ready = <<>> /\ line = <<>>

Minus(a, b) == (a - b) % UINT
At(i) == buf[i % INPUT_BUF]
Bytes(from, to) == [k \in 1..Minus(to, from) |-> At(from + k - 1)]

-----------------------------------------------------------------------------
\* cgaputc(): where the cursor goes; the last row of the screen stays empty.
cgaputc(c, q) ==
  LET at == CASE c = "nl"   -> (q \div COLS + 1) * COLS
              [] c = "bs"   -> IF q > 0 THEN q - 1 ELSE q
              [] OTHER      -> q + 1
  IN  IF at \div COLS >= ROWS - 1 THEN at - COLS ELSE at

\* Backspaces over the k characters of a killed line.
Erase[k \in 0..INPUT_BUF] == [q \in 0..ROWS * COLS |-> IF k = 0 THEN q ELSE cgaputc("bs", Erase[k-1][q])]

\* Every reader that sleeps on input.r.
Wakeup == [p \in Reader |-> IF rd[p].st = "asleep" THEN [rd[p] EXCEPT !.st = "woken"] ELSE rd[p]]

-----------------------------------------------------------------------------
\* ^U takes back characters down to the last newline, but not past w.
Kept == {k \in 0..Minus(e, w) : k = 0 \/ At(w + k - 1) = "nl"}
KillLine ==
  LET k == CHOOSE k \in Kept : \A j \in Kept : j <= k
  IN  /\ e' = (w + k) % UINT
      /\ pos' = Erase[Minus(e, w) - k][pos]
      /\ line' = <<>>
      /\ UNCHANGED <<buf, w, rd, ready>>

Backspace ==
  /\ IF e # w THEN e' = Minus(e, 1) /\ pos' = cgaputc("bs", pos) ELSE UNCHANGED <<e, pos>>
  /\ line' = SubSeq(line, 1, Len(line) - 1)
  /\ UNCHANGED <<buf, w, rd, ready>>

\* Faulty: a full buffer takes one more character.
StoreOverfull(c) ==
  LET e1 == (e + 1) % UINT
      enter == c \in {"nl", "^D"} \/ e1 = (r + INPUT_BUF) % UINT
  IN  IF Minus(e, r) <= INPUT_BUF
        THEN /\ buf' = [buf EXCEPT ![e % INPUT_BUF] = c] /\ e' = e1
             /\ pos' = cgaputc(c, pos)
             /\ IF enter THEN w' = e1 /\ rd' = Wakeup ELSE UNCHANGED <<w, rd>>
             /\ line' = IF enter THEN <<>> ELSE Append(line, c)
             /\ ready' = IF enter THEN ready \o Append(line, c) ELSE ready
        ELSE UNCHANGED <<buf, w, e, rd, pos, ready, line>>

\* A character goes into the buffer, if there is room; the end of a line, ^D
\* and a full buffer make what was typed available to the readers.
Store(c) ==
  LET e1 == (e + 1) % UINT
      enter == c \in {"nl", "^D"} \/ e1 = (r + INPUT_BUF) % UINT
  IN  IF Minus(e, r) < INPUT_BUF
        THEN /\ buf' = [buf EXCEPT ![e % INPUT_BUF] = c] /\ e' = e1
             /\ pos' = cgaputc(c, pos)
             /\ IF enter THEN w' = e1 /\ rd' = Wakeup ELSE UNCHANGED <<w, rd>>
             /\ line' = IF enter THEN <<>> ELSE Append(line, c)
             /\ ready' = IF enter THEN ready \o Append(line, c) ELSE ready
        ELSE UNCHANGED <<buf, w, e, rd, pos, ready, line>>

\* consoleintr() with one character; ^P lists the processes after the lock is
\* released, and the keyboard driver returns 0 for a key that is no character.
consoleintr(c) ==
  /\ cons = Nobody
  /\ CASE c = "^U" -> KillLine
       [] c = "^H" -> Backspace
       [] c \in {"^P", "NUL"} -> UNCHANGED <<buf, w, e, rd, pos, ready, line>>
       [] OTHER -> Store(IF c = "cr" THEN "nl" ELSE c)
  /\ UNCHANGED <<r, cons, killed>>

-----------------------------------------------------------------------------
\* consoleread() is entered, or goes on after sleep().
Lock(p) ==
  /\ cons = Nobody
  /\ cons' = p
  /\ \/ \E n \in ReadSizes : /\ rd[p].st = "away" /\ p \notin killed
                             /\ rd' = [rd EXCEPT ![p] = [st |-> "reads", target |-> n, n |-> n, got |-> <<>>]]
     \/ /\ rd[p].st = "woken"
        /\ rd' = [rd EXCEPT ![p].st = "reads"]
  /\ UNCHANGED <<buf, r, w, e, killed, pos, ready, line>>

\* One turn of consoleread()'s loop with input there.  A ^D behind other bytes
\* is put back, so that the next read returns 0.
Loop(p) ==
  LET c == At(r)
      me == rd[p]
      back == c = "^D" /\ me.n < me.target
  IN  /\ cons = p /\ me.st = "reads" /\ me.n > 0 /\ r # w
      /\ r' = IF back THEN r ELSE (r + 1) % UINT
      /\ ready' = IF back THEN ready ELSE Tail(ready)
      /\ rd' = [rd EXCEPT ![p] = IF c = "^D" THEN [me EXCEPT !.st = "done"]
                                 ELSE [me EXCEPT !.n = @ - 1, !.got = Append(@, c),
                                                 !.st = IF c = "nl" THEN "done" ELSE @]]
      /\ UNCHANGED <<buf, w, e, cons, killed, pos, line>>

\* Without input: sleep(), or the return of a killed process.
Sleep(p) ==
  /\ cons = p /\ rd[p].st = "reads" /\ rd[p].n > 0 /\ r = w
  /\ cons' = Nobody
  /\ rd' = [rd EXCEPT ![p] = IF p \in killed THEN Away ELSE [@ EXCEPT !.st = "asleep"]]
  /\ UNCHANGED <<buf, r, w, e, killed, pos, ready, line>>

Return(p) ==
  /\ cons = p /\ (rd[p].n = 0 \/ rd[p].st = "done")
  /\ cons' = Nobody /\ rd' = [rd EXCEPT ![p] = Away]
  /\ UNCHANGED <<buf, r, w, e, killed, pos, ready, line>>

\* consolewrite() of one byte, by any process.
consolewrite(c) ==
  /\ cons = Nobody
  /\ pos' = cgaputc(c, pos)
  /\ UNCHANGED <<buf, r, w, e, cons, rd, killed, ready, line>>

\* kill() (proc.c) wakes a sleeping reader, unless it came between the
\* reader's test of killed and its sleep().
Kill(p) ==
  /\ killed' = killed \cup {p}
  /\ \/ rd' = [rd EXCEPT ![p].st = IF @ = "asleep" THEN "woken" ELSE @]
     \/ p \notin killed /\ rd[p].st = "asleep" /\ UNCHANGED rd
  /\ UNCHANGED <<buf, r, w, e, cons, pos, ready, line>>

Next ==
  \/ \E c \in Char : consoleintr(c)
  \/ \E c \in {"x", "nl"} : consolewrite(c)
  \/ \E p \in Reader : Lock(p) \/ Loop(p) \/ Sleep(p) \/ Return(p) \/ Kill(p)

Spec == Init /\ [][Next]_consoleVars

-----------------------------------------------------------------------------
\* Editing, full buffers, wrapping indices and competing readers never lose,
\* repeat or reorder input: the buffer between r and w is what was entered and
\* not read, between w and e the line as edited.  A read returns one line or
\* part of one, or nothing for ^D; and no reader sleeps while input is there.
\* The cursor stays on the screen (the panic of cgaputc()).
ConsoleSound ==
  /\ Bytes(r, w) = ready /\ Bytes(w, e) = line
  /\ \A p \in Reader :
       /\ rd[p].st = "asleep" => r = w
       /\ \A k \in 1..Len(rd[p].got)-1 : rd[p].got[k] # "nl"
  /\ pos \in 0..ROWS * COLS - 1
=============================================================================
