----------------------------- MODULE MCPrograms -----------------------------
(***************************************************************************)
(* The parts of the kernel that face a single process, the user library,   *)
(* the larger xv6 programs, the tool that builds the image, and the lab    *)
(* programs, in one run.  They share no variable, so a behaviour picks one *)
(* of them (`sys`) and the others stay in their first state or switched    *)
(* off: every one is explored as if alone.  The INSTANCE of each, or the   *)
(* configuration for those that the module extends, gives its bounds.      *)
(***************************************************************************)
EXTENDS Clock, Args, UThread, Counter, BoundedBuffer, NamedSem, ForkPrio, WordStack,
        Sequences

VARIABLES sys
VARIABLES buf, r, w, e, cons, rd, killed, pos, ready, line
VARIABLES shift, bytes, char, mods, locked, typed, moves
VARIABLES ring, freep, taken, foreign, brk
VARIABLES mem, call, after, ret
VARIABLES text, cmd, ofile, fate
VARIABLES pattern, input, buffer, written, whole, short
VARIABLES args, opened, copied, inode, disk, freeblock, bitmap, status
VARIABLES option, primary, secondary, words, cont, arrived, usedAt, refs, ended

Upto(S, n) == UNION {[1..k -> S] : k \in 0..n}

\* Command lines: all short ones, and longer ones of a few kinds of characters.
Lines == Upto({"a", " ", "|", ";", "&", "(", ")", "<", ">"}, 3)
         \cup [1..5 -> {"a", "(", ")", ">"}] \cup [1..5 -> {"a", "<", ">"}]
         \cup [1..5 -> {"a", "|", ";", "&"}] \cup [1..5 -> {"a", " ", ">"}]
LabLines == Upto({"a", " ", "|", "<", ">", ";"}, 4)

Patterns == (Upto({"a", ".", "*", "$"}, 2) \ {<<>>})
            \cup {<<"^">> \o s : s \in Upto({"a", ".", "*", "$"}, 2)}
            \cup {<<"a", "*", "$">>, <<"a", ".", "*">>, <<".", "*", "a">>}
Texts == {s \in [1..5 -> {"a", "b", "n"}] : s[5] = "n"}

\* Up to three files under two names, some with an indirect block or too long.
Files == Upto([name : {1, 2}, length : {0, 5, 13, 25}], 3)

Formats == Upto({"%", "d", "c", "a"}, 4)

\* Arguments of sleep().
NapArguments == {0, 3, -4}

C == INSTANCE Console WITH Reader <- {1, 2}, Nobody <- 0, INPUT_BUF <- 3, UINT <- 6, ROWS <- 3,
                           COLS <- 2, ReadSizes <- {2}
Y == INSTANCE Keyboard WITH MaxBytes <- 3, MaxMoves <- 5
H == INSTANCE Heap WITH LIMIT <- 12, CORE <- 4, Units <- {2, 3, 5}
S == INSTANCE Strings WITH SIZE <- 4, BYTE <- 2, WORD <- 256, FORMATS <- Formats,
                           PATHS <- Upto({"/", "a", "b"}, 5), DIRSIZ <- 2
X == INSTANCE Shell WITH MAXARGS <- 3, Appends <- TRUE,
                         Symbols <- {"<", "|", ">", "&", ";", "(", ")"}
Z == INSTANCE Shell WITH MAXARGS <- 3, Appends <- FALSE, Symbols <- {"<", "|", ">"},
                         Lines <- LabLines
G == INSTANCE Grep WITH BUFSIZE <- 5
F == INSTANCE Mkfs WITH FSSIZE <- 16, BSIZE <- 4, NDIRECT <- 2, NMETA <- 5, ARGS <- Files
P == INSTANCE PageSim WITH
       Reference <- ({0, 1} \X {0, 1, 2}) \cup {<<1, -2>>, <<0, -1>>, <<2, 1>>, <<1, 3>>},
       MAX_PROCESS <- 2, TAM_PROCESS <- 2, TAM_PRIMARY <- 2, TAM_SECONDARY <- 3, NUM_MAX <- 6

consoleVars == <<buf, r, w, e, cons, rd, killed, pos, ready, line>>
keyVars == <<shift, bytes, char, mods, locked, typed, moves>>
heapVars == <<ring, freep, taken, foreign, brk>>
stringVars == <<mem, call, after, ret>>
shellVars == <<text, cmd, ofile, fate>>
grepVars == <<pattern, input, buffer, written, whole, short>>
imageVars == <<args, opened, copied, inode, disk, freeblock, bitmap, status>>
simVars == <<option, primary, secondary, words, cont, arrived, usedAt, refs, ended>>
kernelSide == <<consoleVars, keyVars, clockVars, argVars>>
library == <<heapVars, threadVars, stringVars>>
tools == <<shellVars, grepVars, imageVars>>
labs == <<simVars, bufferVars, counterVars, semVars, prioVars, stackVars>>
programVars == <<sys, kernelSide, library, tools, labs>>

ConsoleOff == /\ buf = 0 /\ r = 0 /\ w = 0 /\ e = 0 /\ cons = 0 /\ rd = 0 /\ killed = 0
              /\ pos = 0 /\ ready = 0 /\ line = 0
KeyboardOff == /\ shift = 0 /\ bytes = 0 /\ char = 0 /\ mods = 0 /\ locked = 0 /\ typed = 0
               /\ moves = 0
HeapOff == ring = 0 /\ freep = 0 /\ taken = 0 /\ foreign = 0 /\ brk = 0
StringsOff == mem = 0 /\ call = 0 /\ after = 0 /\ ret = 0
ShellOff == text = 0 /\ cmd = 0 /\ ofile = 0 /\ fate = 0
GrepOff == pattern = 0 /\ input = 0 /\ buffer = 0 /\ written = 0 /\ whole = 0 /\ short = 0
MkfsOff == /\ args = 0 /\ opened = 0 /\ copied = 0 /\ inode = 0 /\ disk = 0 /\ freeblock = 0
           /\ bitmap = 0 /\ status = 0
PageSimOff == /\ option = 0 /\ primary = 0 /\ secondary = 0 /\ words = 0
              /\ cont = 0 /\ arrived = 0 /\ usedAt = 0 /\ refs = 0 /\ ended = 0

Init ==
  /\ sys \in {"console", "keyboard", "clock", "args", "heap", "threads", "strings", "shell", "labshell",
              "grep", "mkfs", "sim", "buffer", "counter", "named", "prio", "stack"}
  /\ IF sys = "console" THEN C!Init ELSE ConsoleOff
  /\ IF sys = "keyboard" THEN Y!Init ELSE KeyboardOff
  /\ ClockInit
  /\ ArgsInit
  /\ IF sys = "heap" THEN H!Init ELSE HeapOff
  /\ ThreadInit
  /\ IF sys = "strings" THEN S!Init ELSE StringsOff
  /\ IF sys = "shell" THEN X!Init ELSE IF sys = "labshell" THEN Z!Init ELSE ShellOff
  /\ IF sys = "grep" THEN G!Init ELSE GrepOff
  /\ IF sys = "mkfs" THEN F!Init ELSE MkfsOff
  /\ IF sys = "sim" THEN P!Init ELSE PageSimOff
  /\ BufferInit /\ (sys = "buffer" \/ prog = "buf")
  /\ CounterInit /\ (sys = "counter" \/ program = "glob")
  /\ NamedInit
  /\ PrioInit /\ (sys = "prio" \/ <<numHijos, numSeg>> = <<1, 0>>)
  /\ StackInit

Console ==
  sys = "console" /\ C!Next /\ UNCHANGED <<sys, keyVars, clockVars, argVars, library, tools, labs>>
Keyboard ==
  sys = "keyboard" /\ Y!Next /\ UNCHANGED <<sys, consoleVars, clockVars, argVars, library, tools, labs>>
Clock ==
  sys = "clock" /\ ClockNext /\ UNCHANGED <<sys, consoleVars, keyVars, argVars, library, tools, labs>>
Args ==
  sys = "args" /\ ArgsNext /\ UNCHANGED <<sys, consoleVars, keyVars, clockVars, library, tools, labs>>
Heap == sys = "heap" /\ H!Next /\ UNCHANGED <<sys, threadVars, stringVars, kernelSide, tools, labs>>
UThread ==
  sys = "threads" /\ ThreadNext /\ UNCHANGED <<sys, heapVars, stringVars, kernelSide, tools, labs>>
Strings ==
  sys = "strings" /\ S!Next /\ UNCHANGED <<sys, heapVars, threadVars, kernelSide, tools, labs>>
Shell ==
  /\ (sys = "shell" /\ X!Next) \/ (sys = "labshell" /\ Z!Next)
  /\ UNCHANGED <<sys, grepVars, imageVars, kernelSide, library, labs>>
Grep == sys = "grep" /\ G!Next /\ UNCHANGED <<sys, shellVars, imageVars, kernelSide, library, labs>>
Mkfs == sys = "mkfs" /\ F!Next /\ UNCHANGED <<sys, shellVars, grepVars, kernelSide, library, labs>>
PageSim ==
  sys = "sim" /\ P!Next /\ UNCHANGED <<sys, bufferVars, counterVars, semVars, prioVars, stackVars, kernelSide, library, tools>>
Buffer ==
  sys = "buffer" /\ BufferNext /\ UNCHANGED <<sys, simVars, counterVars, semVars, prioVars, stackVars, kernelSide, library, tools>>
Counter ==
  sys = "counter" /\ CounterNext /\ UNCHANGED <<sys, simVars, bufferVars, semVars, prioVars, stackVars, kernelSide, library, tools>>
NamedSem ==
  sys = "named" /\ NamedNext /\ UNCHANGED <<sys, simVars, bufferVars, counterVars, prioVars, stackVars, kernelSide, library, tools>>
ForkPrio ==
  sys = "prio" /\ PrioNext /\ UNCHANGED <<sys, simVars, bufferVars, counterVars, semVars, stackVars, kernelSide, library, tools>>
WordStack ==
  sys = "stack" /\ StackNext /\ UNCHANGED <<sys, simVars, bufferVars, counterVars, semVars, prioVars, kernelSide, library, tools>>

Next ==
  \/ Console \/ Keyboard \/ Clock \/ Args \/ Heap \/ UThread \/ Strings \/ Shell
  \/ Grep \/ Mkfs \/ PageSim \/ Buffer \/ Counter \/ NamedSem \/ ForkPrio \/ WordStack

Spec == Init /\ [][Next]_programVars
-----------------------------------------------------------------------------
(* consoleintr(), consoleread(): the input ring and its readers.           *)
(* kbdgetc(): the character that a key means.                              *)
ConsoleSound == (sys = "console" => C!ConsoleSound) /\ (sys = "keyboard" => Y!KeysSound)

(* malloc(), free(): blocks are apart and free neighbours joined.          *)
HeapSound == sys = "heap" => H!HeapSound

(* string.c, ulib.c, printf.c: each routine against its definition.        *)
StringsSound == sys = "strings" => S!StringsSound

(* Both sh.c: parser against grammar, and the descriptors commands get.    *)
ShellSound == (sys = "shell" => X!ShellSound) /\ (sys = "labshell" => Z!ShellSound)

(* grep.c: matcher against regular expressions, buffer against text.       *)
GrepSound == sys = "grep" => G!GrepSound

(* mkfs.c: the image holds the files where the kernel looks.               *)
ImageSound == sys = "mkfs" => F!ImageSound

(* sim.c: every page in one place, the victim FIFO or LRU.                 *)
PagesSound == sys = "sim" => P!PagesSound
=============================================================================
