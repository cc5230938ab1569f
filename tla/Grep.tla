-------------------------------- MODULE Grep --------------------------------
(***************************************************************************)
(* grep (xv6/grep.c): the matcher of ^ . * $ and the loop that finds the   *)
(* lines in a buffer refilled by read().                                   *)
(***************************************************************************)
LOCAL INSTANCE Integers
LOCAL INSTANCE SequencesExt

CONSTANTS Patterns, Texts,  \* patterns and contents of the input
          BUFSIZE           \* sizeof(buf)

VARIABLES pattern, input,  \* input: what is still to be read
          buffer,          \* buf[0..m-1]
          written,         \* the lines written to descriptor 1
          whole,           \* history: the whole input
          short            \* history: a read() gave less than it could

grepVars == <<pattern, input, buffer, written, whole, short>>

NL == "n"
From(s, k) == SubSeq(s, k, Len(s))

-----------------------------------------------------------------------------
\* Faulty: a star takes one character at least.
RECURSIVE matchhereEager(_, _)
matchhereEager(re, text) ==
  CASE re = <<>> -> TRUE
    [] Len(re) > 1 /\ re[2] = "*" ->
         \E k \in 1..Len(text) : /\ \A i \in 1..k : re[1] \in {".", text[i]}
                                 /\ matchhereEager(From(re, 3), From(text, k + 1))
    [] re = <<"$">> -> text = <<>>
    [] OTHER -> /\ text # <<>> /\ re[1] \in {".", text[1]}
                /\ matchhereEager(Tail(re), Tail(text))

RECURSIVE matchhere(_, _)

\* The do loop: after zero, one, two... instances of c; the text may be passed
\* by one character that is not c before the loop ends.
RECURSIVE matchstar(_, _, _)
matchstar(c, re, text) ==
  \/ matchhere(re, text)
  \/ text # <<>> /\ c \in {".", text[1]} /\ matchstar(c, re, Tail(text))

matchhere(re, text) ==
  IF re = <<>> THEN TRUE
  ELSE IF Len(re) > 1 /\ re[2] = "*" THEN matchstar(re[1], From(re, 3), text)
  ELSE IF re = <<"$">> THEN text = <<>>
  ELSE IF text # <<>> /\ re[1] \in {".", text[1]} THEN matchhere(Tail(re), Tail(text))
  ELSE FALSE

match(re, text) ==
  IF re # <<>> /\ re[1] = "^" THEN matchhere(Tail(re), text)
  ELSE \E k \in 1..Len(text)+1 : matchhere(re, From(text, k))

-----------------------------------------------------------------------------
Init ==
  /\ pattern = <<>> /\ input = <<>> /\ buffer = <<>> /\ written = <<>>
  /\ whole = <<>> /\ short = FALSE

main ==
  /\ pattern = <<>> /\ pattern' \in Patterns \ {<<>>}
  /\ whole' \in Texts /\ input' = whole'
  /\ UNCHANGED <<buffer, written, short>>

\* The lines that end in the buffer, in order: first character and newline.
LinesOf(b) ==
  LET Begin(k) == CHOOSE f \in 1..k : /\ f = 1 \/ b[f-1] = NL
                                      /\ \A i \in f..k-1 : b[i] # NL
      newlines == SelectSeq([k \in 1..Len(b) |-> k], LAMBDA k : b[k] = NL)
  IN  [i \in 1..Len(newlines) |-> <<Begin(newlines[i]), newlines[i]>>]
Text(b, l) == SubSeq(b, l[1], l[2] - 1)
Matching(b, re) == SelectSeq([i \in 1..Len(LinesOf(b)) |-> Text(b, LinesOf(b)[i])],
                             LAMBDA t : match(re, t))

\* Where the line that has not ended begins; the length + 1 if there is none.
Rest(b) == CHOOSE k \in 1..Len(b)+1 : /\ k = 1 \/ b[k-1] = NL
                                      /\ \A i \in k..Len(b) : b[i] # NL

\* One round of the loop; read() gives n characters.  A buffer without the end
\* of a line is thrown away (m = 0).
grep(n) ==
  LET b == buffer \o SubSeq(input, 1, n)
      room == BUFSIZE - Len(buffer) - 1
      most == IF room < Len(input) THEN room ELSE Len(input)
  IN
  /\ pattern # <<>> /\ n \in 1..most
  /\ input' = From(input, n + 1)
  /\ written' = written \o Matching(b, pattern)
  /\ buffer' = IF Rest(b) = 1 THEN <<>> ELSE From(b, Rest(b))
  /\ short' = (short \/ n < most)
  /\ UNCHANGED <<pattern, whole>>

Next == main \/ \E n \in 1..BUFSIZE : grep(n)

Spec == Init /\ [][Next]_grepVars

-----------------------------------------------------------------------------
\* What a pattern means: a list of items, each a character that occurs once or
\* any number of times, perhaps fixed at the two ends of the line.
Fixed(re) == re # <<>> /\ re[1] = "^"
Stars(re) == {i \in 1..Len(re)-1 : re[i+1] = "*"}
\* The items begin at the positions that are reached from the first one.
IsItems(re, S) == \A i \in 1..Len(re) :
  i \in S <=> \/ i = 1
              \/ i - 1 \in S /\ i - 1 \notin Stars(re)
              \/ i - 2 \in S /\ i - 2 \in Stars(re)
Items(re) == LET S == CHOOSE T \in SUBSET (1..Len(re)) : IsItems(re, T)
             IN  SelectSeq([i \in 1..Len(re) |-> i], LAMBDA i : i \in S)
Means(re, text) ==
  LET body == IF Fixed(re) THEN Tail(re) ELSE re
      all == Items(body)
      ends == all # <<>> /\ Last(all) = Len(body) /\ body[Len(body)] = "$"
      items == IF ends THEN Front(all) ELSE all
      Fits(i, a, z) == /\ i \in Stars(body) \/ z = a + 1
                       /\ \A k \in a+1..z : body[i] \in {".", text[k]}
  IN  \E at \in [0..Len(items) -> 0..Len(text)] :
        /\ Fixed(re) => at[0] = 0
        /\ ends => at[Len(items)] = Len(text)
        /\ \A i \in 1..Len(items) : at[i-1] <= at[i] /\ Fits(items[i], at[i-1], at[i])

\* match() finds exactly what the pattern means.  grep() writes exactly the lines
\* that match, whole and in order, if they fit the buffer and every read()
\* fills it as far as the input goes, as it does on a file.
GrepSound ==
  LET lines == Range(LinesOf(whole))
  IN
  /\ pattern # <<>> /\ input = whole =>
       \A l \in lines : match(pattern, Text(whole, l)) <=> Means(pattern, Text(whole, l))
  /\ pattern # <<>> /\ input = <<>> /\ ~short
       /\ (\A l \in lines : l[2] - l[1] + 1 < BUFSIZE) =>
       written = Matching(whole, pattern)
=============================================================================
