------------------------------ MODULE Strings ------------------------------
(***************************************************************************)
(* The byte and string routines of the kernel (string.c) and of user       *)
(* programs (ulib.c), the number conversion both printers use, the two     *)
(* format interpreters, printf (printf.c) and cprintf (console.c), and the *)
(* elements that namex() (fs.c) takes from a path.  Memory is SIZE bytes,  *)
(* a pointer an index into it, and byte 0 ends a string.                   *)
(* A behaviour is one call from an arbitrary memory; `after` and `ret` are *)
(* what it leaves and returns.  Calls keep inside memory, and string       *)
(* copies are between regions that do not overlap, as all callers' are.    *)
(***************************************************************************)
LOCAL INSTANCE Integers
LOCAL INSTANCE Sequences
LOCAL INSTANCE SequencesExt

CONSTANTS SIZE,    \* bytes of memory
          BYTE,    \* largest byte value used
          WORD,    \* 2^32: one past the largest unsigned int
          FORMATS, \* the formats given to the printers
          PATHS,   \* the paths given to namex
          DIRSIZ

VARIABLES mem, call, after, ret

stringVars == <<mem, call, after, ret>>

Address == 0 .. SIZE - 1
NL == BYTE           \* the byte that stands for '\n'
NULL == -1

Init ==
  /\ mem \in [Address -> 0..BYTE]
  /\ call = <<"ready">>
  /\ after = mem
  /\ ret = 0
-----------------------------------------------------------------------------
(* The routines that write memory.                                         *)
Up(n) == [k \in 1..n |-> k - 1]
Down(n) == [k \in 1..n |-> n - k]

Copy(m, d, s, order) == FoldLeft(LAMBDA a, i : [a EXCEPT ![d + i] = a[s + i]], m, order)

memset(m, d, c, n) == [i \in Address |-> IF i \in d .. d + n - 1 THEN c ELSE m[i]]

\* Copies from the end when the source starts below an overlapping target.
memmoveForward(m, d, s, n) == Copy(m, d, s, Up(n))
memmove(m, d, s, n) == Copy(m, d, s, IF s < d /\ s + n > d THEN Down(n) ELSE Up(n))

\* ulib.c's memmove, which copies upwards only.
memmoveUser(m, d, s, n) == Copy(m, d, s, Up(n))

RECURSIVE strcpy(_, _, _)
strcpy(m, d, s) ==
  LET c == [m EXCEPT ![d] = m[s]] IN IF m[s] = 0 THEN c ELSE strcpy(c, d + 1, s + 1)

RECURSIVE strncpy(_, _, _, _)
strncpy(m, d, s, n) ==
  IF n <= 0 THEN m
  ELSE LET c == [m EXCEPT ![d] = m[s]]
       IN IF m[s] = 0 THEN memset(c, d + 1, 0, n - 1) ELSE strncpy(c, d + 1, s + 1, n - 1)

\* The copied terminator is followed by a second one, written after the loop.
RECURSIVE safestrcpy(_, _, _, _)
safestrcpy(m, d, s, n) ==
  IF n <= 0 THEN m
  ELSE IF n = 1 THEN [m EXCEPT ![d] = 0]
  ELSE LET c == [m EXCEPT ![d] = m[s]]
       IN IF m[s] = 0 THEN [c EXCEPT ![d + 1] = 0] ELSE safestrcpy(c, d + 1, s + 1, n - 1)

\* gets: i bytes are stored; read() returns one byte of `in`, or 0 at its end.
RECURSIVE gets(_, _, _, _, _)
gets(m, d, i, max, in) ==
  IF i + 1 >= max \/ in = <<>> THEN [m EXCEPT ![d + i] = 0]
  ELSE LET c == [m EXCEPT ![d + i] = Head(in)]
       IN IF Head(in) = NL THEN [c EXCEPT ![d + i + 1] = 0] ELSE gets(c, d, i + 1, max, Tail(in))

(* The routines that only read it.                                         *)
RECURSIVE strlen(_, _)
strlen(m, s) == IF m[s] = 0 THEN 0 ELSE 1 + strlen(m, s + 1)

RECURSIVE memcmp(_, _, _, _)
memcmp(m, p, q, n) ==
  IF n = 0 THEN 0 ELSE IF m[p] # m[q] THEN m[p] - m[q] ELSE memcmp(m, p + 1, q + 1, n - 1)

RECURSIVE strncmp(_, _, _, _)
strncmp(m, p, q, n) ==
  IF n = 0 THEN 0
  ELSE IF m[p] # 0 /\ m[p] = m[q] THEN strncmp(m, p + 1, q + 1, n - 1)
  ELSE m[p] - m[q]

RECURSIVE strcmp(_, _, _)
strcmp(m, p, q) == IF m[p] # 0 /\ m[p] = m[q] THEN strcmp(m, p + 1, q + 1) ELSE m[p] - m[q]

RECURSIVE strchr(_, _, _)
strchr(m, s, c) == IF m[s] = 0 THEN NULL ELSE IF m[s] = c THEN s ELSE strchr(m, s + 1, c)

(* Numbers: a digit is its value.                                          *)
RECURSIVE Digits(_, _)
Digits(x, base) == (IF x \div base = 0 THEN <<>> ELSE Digits(x \div base, base)) \o <<x % base>>

\* An int is its bit pattern 0 .. WORD - 1; -x is taken modulo WORD.
MINUS == -1           \* the character '-'
Negative(x) == x >= WORD \div 2
printint(x, base, sgn) ==
  IF sgn /\ Negative(x) THEN <<MINUS>> \o Digits((WORD - x) % WORD, base) ELSE Digits(x, base)

RECURSIVE atoi(_, _)
atoi(s, n) == IF s = <<>> \/ Head(s) = MINUS THEN n ELSE atoi(Tail(s), n * 10 + Head(s))

(* Formats: what is printed is an argument's position and conversion, or   *)
(* 0 and a character of the format.                                        *)
RECURSIVE printf(_, _, _)
printf(f, state, ap) ==
  IF f = <<>> THEN <<>>
  ELSE LET c == Head(f)
           Go(out, s, a) == out \o printf(Tail(f), s, a)
       IN IF state = "text"
          THEN IF c = "%" THEN Go(<<>>, "%", ap) ELSE Go(<< <<0, c>> >>, "text", ap)
          ELSE IF c \in {"d", "x", "s", "c"} THEN Go(<< <<ap, c>> >>, "text", ap + 1)
          ELSE IF c = "%" THEN Go(<< <<0, c>> >>, "text", ap)
          ELSE Go(<< <<0, "%">>, <<0, c>> >>, "text", ap)

RECURSIVE cprintf(_, _)
cprintf(f, argp) ==
  IF f = <<>> THEN <<>>
  ELSE IF Head(f) # "%" THEN << <<0, Head(f)>> >> \o cprintf(Tail(f), argp)
  ELSE IF Len(f) = 1 THEN <<>>
  ELSE LET c == f[2]
           rest == SubSeq(f, 3, Len(f))
       IN IF c \in {"d", "x", "s"} THEN << <<argp, c>> >> \o cprintf(rest, argp + 1)
          ELSE IF c = "%" THEN << <<0, c>> >> \o cprintf(rest, argp)
          ELSE << <<0, "%">>, <<0, c>> >> \o cprintf(rest, argp)

(* Paths: the next name, of which DIRSIZ bytes are kept, and the rest of    *)
(* the path without leading slashes; nothing if there is no name.          *)
skipelem(path) ==
  LET Past(i, slash) == CHOOSE j \in i .. Len(path) + 1 :
        /\ j = Len(path) + 1 \/ (path[j] = "/") # slash
        /\ \A k \in i .. j - 1 : (path[k] = "/") = slash
      s == Past(1, TRUE)
      e == Past(s, FALSE)
  IN  IF s > Len(path) THEN <<>>
      ELSE <<SubSeq(path, s, IF e - s >= DIRSIZ THEN s + DIRSIZ - 1 ELSE e - 1),
             SubSeq(path, Past(e, TRUE), Len(path))>>

\* The names that the loop of namex looks up, each with: nameiparent stops here.
RECURSIVE namex(_)
namex(path) ==
  LET next == skipelem(path)
  IN  IF next = <<>> THEN <<>> ELSE << <<next[1], next[2] = <<>> >> >> \o namex(next[2])
-----------------------------------------------------------------------------
Zero(s) == \E i \in s .. SIZE - 1 : mem[i] = 0       \* a string starts at s
Fits(p, n) == p + n <= SIZE
Apart(d, s, n, k) == d + n <= s \/ s + k <= d

Done(c, m, r) == call' = c /\ after' = m /\ ret' = r

Move(d, s, n) ==
  /\ Fits(d, n) /\ Fits(s, n)
  /\ \/ Done(<<"memmove", d, s, n>>, memmove(mem, d, s, n), d)
     \/ Done(<<"memmoveUser", d, s, n>>, memmoveUser(mem, d, s, n), d)
     \/ Done(<<"memcmp", d, s, n>>, mem, memcmp(mem, d, s, n))
     \/ \E c \in 0..BYTE : s = 0 /\ Done(<<"memset", d, c, n>>, memset(mem, d, c, n), d)

Texts(d, s, n) ==
  /\ Zero(s)
  /\ \/ /\ Fits(d, n) /\ Apart(d, s, n, strlen(mem, s) + 1)
        /\ \/ Done(<<"strncpy", d, s, n>>, strncpy(mem, d, s, n), d)
           \/ Done(<<"safestrcpy", d, s, n>>, safestrcpy(mem, d, s, n), d)
           \/ n = strlen(mem, s) + 1 /\ Done(<<"strcpy", d, s, n>>, strcpy(mem, d, s), d)
     \/ /\ Zero(d)
        /\ \/ Done(<<"strncmp", d, s, n>>, mem, strncmp(mem, d, s, n))
           \/ n = SIZE /\ Done(<<"strcmp", d, s, n>>, mem, strcmp(mem, d, s))
     \/ n = d /\ d \in 1..BYTE /\ Done(<<"strchr", d, s, n>>, mem, strchr(mem, s, d))

Reads(d, max) == \E in \in UNION {[1..k -> 1..BYTE] : k \in 0..2} :
  Fits(d, max) /\ max > 0 /\ Done(<<"gets", d, in, max>>, gets(mem, d, 0, max, in), d)

\* The printers and paths use no other memory of the caller's: one is enough.
Prints ==
  /\ mem = [a \in Address |-> 0]
  /\ \/ \E x \in 0 .. WORD - 1, base \in {10, 16}, sgn \in BOOLEAN :
          Done(<<"printint", x, base, sgn>>, mem, printint(x, base, sgn))
     \/ \E f \in FORMATS : Done(<<"printf", f>>, mem, <<printf(f, "text", 1), cprintf(f, 1)>>)
     \/ \E path \in PATHS : Done(<<"namex", path>>, mem, namex(path))

Next ==
  /\ call = <<"ready">>
  /\ UNCHANGED mem
  /\ \/ \E d, s \in Address, n \in 0..SIZE : Move(d, s, n) \/ Texts(d, s, n)
     \/ \E d \in Address, n \in 0..SIZE : Reads(d, n)
     \/ Prints

Spec == Init /\ [][Next]_stringVars
-----------------------------------------------------------------------------
(* What each routine promises, without its loop.                           *)
Moved(d, s, n) == [i \in Address |-> IF i \in d .. d + n - 1 THEN mem[s + i - d] ELSE mem[i]]
Str(s) == LET e == CHOOSE e \in s .. SIZE - 1 : mem[e] = 0 /\ \A i \in s .. e - 1 : mem[i] # 0
          IN [i \in 1 .. e - s |-> mem[s + i - 1]]
At(t, i) == IF i <= Len(t) THEN t[i] ELSE 0
First(t, n) == SubSeq(t, 1, IF n < Len(t) THEN n ELSE Len(t))
Same(d, n) == \A i \in Address \ (d .. d + n - 1) : after[i] = mem[i]
Written(d, t) == \A i \in 1 .. Len(t) + 1 : after[d + i - 1] = At(t, i)

\* The result compares two equally long byte sequences by their first difference.
Compares(t, u, n) ==
  \/ ret = 0 /\ \A i \in 1..n : At(t, i) = At(u, i)
  \/ \E i \in 1..n : ret = At(t, i) - At(u, i) /\ ret # 0 /\ \A j \in 1 .. i - 1 : At(t, j) = At(u, j)

Line(in, max) == LET e == {i \in 1..Len(in) : in[i] = NL}
                     n == IF e = {} THEN Len(in) ELSE CHOOSE i \in e : \A j \in e : i <= j
                 IN First(in, IF n < max - 1 THEN n ELSE max - 1)

MemoryExact == LET op == call[1] d == call[2] s == call[3] n == call[4] IN
  /\ op = "memmove" => after = Moved(d, s, n)
  /\ op = "memmoveUser" /\ ~(s < d /\ d < s + n) => after = Moved(d, s, n)
  /\ op = "memset" => after = [i \in Address |-> IF i \in d .. d + n - 1 THEN s ELSE mem[i]]
  /\ op = "memcmp" => Compares([i \in 1..n |-> mem[d + i - 1]], [i \in 1..n |-> mem[s + i - 1]], n)
  /\ op = "strncpy" => Same(d, n) /\ \A i \in 1..n : after[d + i - 1] = At(Str(s), i)
  /\ op = "safestrcpy" => Same(d, n) /\ (n > 0 => Written(d, First(Str(s), n - 1)))
  /\ op = "strcpy" => Same(d, n) /\ Written(d, Str(s))
  /\ op = "strncmp" => Compares(Str(d), Str(s), n)
  /\ op = "strcmp" => Compares(Str(d), Str(s), SIZE)
  /\ op = "strchr" =>
       LET hits == {i \in 1..Len(Str(s)) : Str(s)[i] = d}
       IN IF hits = {} THEN ret = NULL ELSE ret - s + 1 \in hits /\ \A i \in hits : ret - s < i
  /\ op = "gets" => Same(d, n) /\ Written(d, Line(s, n))

Value(ds, base) == FoldLeft(LAMBDA v, x : v * base + x, 0, ds)

NumberExact == call[1] = "printint" =>
  LET x == call[2] base == call[3] minus == call[4] /\ Negative(x)
      ds == IF minus THEN Tail(ret) ELSE ret
  IN /\ minus => Head(ret) = MINUS
     /\ Value(ds, base) = IF minus THEN WORD - x ELSE x
     /\ Len(ds) > 1 => ds[1] # 0
     /\ base = 10 /\ ~minus => atoi(ret, 0) = x

\* A conversion is a % that no conversion before it has used, with its letter.
RECURSIVE Conversions(_, _)
Conversions(f, i) ==
  IF i >= Len(f) THEN <<>>
  ELSE IF f[i] # "%" THEN Conversions(f, i + 1) ELSE <<f[i + 1]>> \o Conversions(f, i + 2)

FormatExact == call[1] = "printf" =>
  LET letters == SelectSeq(Conversions(call[2], 1), LAMBDA c : c \in {"d", "x", "s", "c"})
      printed == SelectSeq(ret[1], LAMBDA c : c[1] # 0)
  IN /\ printed = [k \in 1..Len(letters) |-> <<k, letters[k]>>]
     /\ "c" \notin {letters[k] : k \in 1..Len(letters)} => ret[1] = ret[2]

\* The names begin where a slash or the path does before another character.
PathExact == call[1] = "namex" =>
  LET path == call[2]
      Begins == {i \in 1..Len(path) : path[i] # "/" /\ (i = 1 \/ path[i - 1] = "/")}
      at == SelectSeq([i \in 1..Len(path) |-> i], LAMBDA i : i \in Begins)
      Slashes(i) == {j \in i..Len(path) : path[j] = "/"} \cup {Len(path) + 1, i + DIRSIZ}
      Name(i) == SubSeq(path, i, (CHOOSE e \in Slashes(i) : \A x \in Slashes(i) : e <= x) - 1)
  IN ret = [k \in 1..Len(at) |-> <<Name(at[k]), k = Len(at)>>]

(* Every routine of string.c and ulib.c does to memory, or returns, what   *)
(* its definition over whole strings says, for every placement of its      *)
(* arguments: memmove also when source and target overlap either way,      *)
(* safestrcpy always terminated and never past n bytes although it writes  *)
(* two terminators, gets one line and never more than max bytes.  The      *)
(* digits printint stores are the number, the least int included, and      *)
(* printf and cprintf take the k-th argument for the k-th conversion and   *)
(* print the same for formats without %c, which only printf knows.  And    *)
(* namex goes through the names between slashes, however many and wherever *)
(* these are, each cut to DIRSIZ bytes, and knows the last one.            *)
StringsSound == call = <<"ready">> \/ (MemoryExact /\ NumberExact /\ FormatExact /\ PathExact)
=============================================================================
