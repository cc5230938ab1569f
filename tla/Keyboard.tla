------------------------------ MODULE Keyboard ------------------------------
(***************************************************************************)
(* kbdgetc() of xv6/kbd.c: from the bytes that the keyboard sends to the   *)
(* characters that consoleintr() gets.  A key sends its scan code when it  *)
(* goes down and again while it is held, and the code + 128 when it goes   *)
(* up; some have an E0 before each.  Each byte is an interrupt.            *)
(***************************************************************************)
LOCAL INSTANCE Integers
LOCAL INSTANCE Sequences

CONSTANTS MaxBytes, \* bytes that wait in the controller
          MaxMoves  \* bound on the movements of keys

VARIABLES shift,   \* the flags of kbdgetc()
          bytes,   \* sent and not yet read
          char,    \* what kbdgetc() returned last, "" for no character
          mods,    \* history: the modifiers of which a key moved last downwards
          locked,  \* history: caps lock is on
          typed,   \* history: the character that the last movement means
          moves

keyVars == <<shift, bytes, char, mods, locked, typed, moves>>

Init ==
  /\ shift = {} /\ bytes = <<>> /\ char = ""
  /\ mods = {} /\ locked = FALSE /\ typed = "" /\ moves = 0

\* A part of the tables of kbd.h: both control and both shift keys, caps lock, the
\* letter a, and a key that with E0 is the up arrow and without it the digit 8.
E0 == 224
shiftcode(d) == IF d \in {29, 157} THEN {"CTL"} ELSE IF d \in {42, 54} THEN {"SHIFT"} ELSE {}
togglecode(d) == IF d = 58 THEN {"CAPSLOCK"} ELSE {}
charcode(flags, d) ==
  CASE d = 30 -> IF "CTL" \in flags THEN "^A" ELSE IF "SHIFT" \in flags THEN "A" ELSE "a"
    [] d = 72 -> IF "CTL" \in flags THEN "" ELSE "8"
    [] d = 200 -> "KEY_UP"
    [] OTHER -> ""
Toggled(c) == IF c = "a" THEN "A" ELSE IF c = "A" THEN "a" ELSE c

\* The entry of shiftcode for a key that goes up.
UpCode(d) == IF "E0ESC" \in shift THEN d ELSE d - 128

\* The three cases of kbdgetc(): the escape, a key that goes up, one that goes down.
kbdgetc ==
  /\ bytes # <<>> /\ bytes' = Tail(bytes)
  /\ LET data == Head(bytes)
         d == IF "E0ESC" \in shift THEN data + 128 ELSE data
         held == (shift \ {"E0ESC"}) \cup shiftcode(d)
         now == (held \ togglecode(d)) \cup (togglecode(d) \ held)
         c == charcode(now, d)
     IN
     IF data = E0 THEN shift' = shift \cup {"E0ESC"} /\ char' = ""
     ELSE IF data >= 128
       THEN shift' = shift \ (shiftcode(UpCode(data)) \cup {"E0ESC"}) /\ char' = ""
       ELSE shift' = now /\ char' = IF "CAPSLOCK" \in now THEN Toggled(c) ELSE c
  /\ UNCHANGED <<mods, locked, typed, moves>>
-----------------------------------------------------------------------------
\* The keys, and what each is for.  With the arrows a keyboard sends shifts that nobody
\* pressed, an E0 and the code of left shift.
Key == {[e0 |-> e, code |-> c, is |-> m] : <<e, c, m>> \in
        {<<FALSE, 29, "CTL">>, <<TRUE, 29, "CTL">>, <<FALSE, 42, "SHIFT">>, <<FALSE, 54, "SHIFT">>,
         <<FALSE, 58, "CAPSLOCK">>, <<FALSE, 30, "a">>, <<FALSE, 72, "8">>,
         <<TRUE, 72, "KEY_UP">>, <<TRUE, 42, "none">>}}

Sent(k, d) == IF k.e0 THEN <<E0, d>> ELSE <<d>>

Send(code) ==
  /\ moves < MaxMoves /\ moves' = moves + 1
  /\ bytes' = bytes \o code /\ Len(bytes') <= MaxBytes

Means(k, on) ==
  CASE k.is = "a" -> IF "CTL" \in mods THEN "^A" ELSE IF ("SHIFT" \in mods) # on THEN "A" ELSE "a"
    [] k.is = "8" -> IF "CTL" \in mods THEN "" ELSE "8"
    [] k.is = "KEY_UP" -> "KEY_UP"
    [] OTHER -> ""

Down(k) ==
  /\ Send(Sent(k, k.code))
  /\ mods' = mods \cup ({k.is} \cap {"CTL", "SHIFT"})
  /\ locked' = (locked # (k.is = "CAPSLOCK"))
  /\ typed' = Means(k, locked)
  /\ UNCHANGED <<shift, char>>

Up(k) ==
  /\ Send(Sent(k, k.code + 128))
  /\ mods' = mods \ {k.is}
  /\ typed' = ""
  /\ UNCHANGED <<shift, char, locked>>

Next == kbdgetc \/ \E k \in Key : Down(k) \/ Up(k)

Spec == Init /\ [][Next]_keyVars
-----------------------------------------------------------------------------
\* Whenever the bytes of a movement are read, no modifier is stuck or lost, not
\* even to the shifts that come with the arrow; and the character is the one that the
\* key means.
KeysSound ==
  bytes = <<>> =>
    /\ shift = mods \cup (IF locked THEN {"CAPSLOCK"} ELSE {})
    /\ char = typed
=============================================================================
