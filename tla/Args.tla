--------------------------------- MODULE Args ---------------------------------
(***************************************************************************)
(* The arguments that xv6/syscall.c fetches from a process and checks      *)
(* against its size.  uint has UINT values and sums wrap around.           *)
(***************************************************************************)
EXTENDS Integers

CONSTANTS UINT,     \* range of uint
          INT,      \* bytes of an int (4)
          KERNBASE  \* bound on the size of a process; at most UINT / 2

ASSUME ArgsAssumption ==
  /\ UINT \in Nat /\ INT \in Nat \ {0} /\ KERNBASE \in Nat
  /\ INT <= KERNBASE /\ 2 * KERNBASE <= UINT

VARIABLES sz,      \* proc->sz
          touched  \* the addresses that the kernel uses on the process's behalf

argVars == <<sz, touched>>

UInt == 0..UINT-1
Plus(a, b) == (a + b) % UINT

ArgsInit == sz = 1 /\ touched = {}

\* fetchint() of the int at addr.
fetchint(addr) == ~(addr >= sz \/ Plus(addr, INT) > sz)

\* argint(): the argument word above the user's stack pointer, any value.
ArgAt(esp) == Plus(esp, INT)
argint(esp) == fetchint(ArgAt(esp))
Word(esp) == {ArgAt(esp) + k : k \in 0..INT-1}

\* Faulty: only the start of the block is checked.
argptrStart(i, size) == ~(size < 0 \/ i >= sz)

\* argptr(): the block of size bytes at i.
argptr(i, size) == ~(size < 0 \/ i >= sz \/ Plus(i, size) > sz)

\* fetchstr(): the bytes from i to the NUL, or to the end of the process.
fetchstr(i, nul) == IF i >= sz THEN {} ELSE {a \in i..sz-1 : a <= nul}

\* A call whose argument is a pointer to size bytes, or to a string.
Fetch(esp, i, size) ==
  /\ touched' = IF ~argint(esp) THEN {}
                ELSE Word(esp) \cup (IF argptr(i, size) THEN {i + k : k \in 0..size-1} ELSE {})
  /\ UNCHANGED sz

argstr(esp, i, nul) ==
  /\ touched' = IF ~argint(esp) THEN {} ELSE Word(esp) \cup fetchstr(i, nul)
  /\ UNCHANGED sz

\* sbrk() and exec() change the size between calls.
Resize(n) ==
  /\ sz' = n /\ touched' = {}

ArgsNext ==
  \/ \E esp, i \in UInt, size \in -1..KERNBASE : Fetch(esp, i, size)
  \/ \E esp, i, nul \in UInt : argstr(esp, i, nul)
  \/ \E n \in 1..KERNBASE-1 : Resize(n)

ArgsSpec == ArgsInit /\ [][ArgsNext]_argVars

-----------------------------------------------------------------------------
\* Whatever esp, pointer and length a process passes, and whatever sum wraps
\* around, the kernel touches only addresses below the process's size.
ArgsInside == touched \subseteq 0..sz-1
=============================================================================
