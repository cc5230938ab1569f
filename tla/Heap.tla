-------------------------------- MODULE Heap --------------------------------
(***************************************************************************)
(* malloc() and free() of the user library (xv6/umalloc.c).  Memory is in  *)
(* units of a Header: unit 0 is base, the core from sbrk() begins at 1.  A *)
(* block is a header and the units behind it.                              *)
(***************************************************************************)
LOCAL INSTANCE Integers
LOCAL INSTANCE FiniteSets

CONSTANTS LIMIT,   \* where sbrk() fails
          CORE,    \* units that morecore() asks for at least (4096)
          Units    \* the nunits of malloc(), header included

VARIABLES ring,    \* the headers of free blocks: ptr and size
          freep,   \* where the next search begins; -1 before the first malloc()
          taken,   \* the blocks of the program: their size
          foreign, \* units that the program got from sbrk() itself
          brk      \* the end of the core

heapVars == <<ring, freep, taken, foreign, brk>>

Init ==
  /\ ring = [b \in {0} |-> [ptr |-> 0, size |-> 0]]
  /\ freep = -1 /\ taken = [b \in {} |-> 0] /\ foreign = {} /\ brk = 1

Without(f, x) == [b \in DOMAIN f \ {x} |-> f[b]]
With(f, x, v) == [b \in DOMAIN f \cup {x} |-> IF b = x THEN v ELSE f[b]]

-----------------------------------------------------------------------------
\* The entry after which free() puts the block bp: bp lies between it and its
\* successor, or it is the last one and bp lies outside the ring.
Before(r, bp) == CHOOSE p \in DOMAIN r :
  \/ bp > p /\ bp < r[p].ptr
  \/ p >= r[p].ptr /\ (bp > p \/ bp < r[p].ptr)

\* Faulty: a block is not joined to the one below it.
freeUnjoined(r, bp, size) ==
  LET p == Before(r, bp)
      next == r[p].ptr
      up == bp + size = next
      b == IF up THEN [ptr |-> r[next].ptr, size |-> size + r[next].size]
                 ELSE [ptr |-> next, size |-> size]
      r1 == IF up THEN Without(r, next) ELSE r
  IN  [ring |-> With([r1 EXCEPT ![p].ptr = bp], bp, b), freep |-> p]

\* free() of a block: joined to the free blocks above and below it.
free(r, bp, size) ==
  LET p == Before(r, bp)
      next == r[p].ptr
      up == bp + size = next
      b == IF up THEN [ptr |-> r[next].ptr, size |-> size + r[next].size]
                 ELSE [ptr |-> next, size |-> size]
      r1 == IF up THEN Without(r, next) ELSE r
  IN  [ring |-> IF p + r1[p].size = bp
                  THEN [r1 EXCEPT ![p] = [ptr |-> b.ptr, size |-> @.size + b.size]]
                  ELSE With([r1 EXCEPT ![p].ptr = bp], bp, b),
       freep |-> p]

\* The kth entry behind p, the one before it, and how far the search for n
\* units goes (0: it comes back to p without success).
Behind(r, p) == LET at[k \in 0..Cardinality(DOMAIN r)] == IF k = 0 THEN p ELSE r[at[k-1]].ptr IN at
Found(r, p, n) ==
  LET at == Behind(r, p)
      fit == {k \in DOMAIN at \ {0} : r[at[k]].size >= n}
  IN  IF fit = {} THEN 0 ELSE CHOOSE k \in fit : \A j \in fit : k <= j

\* The block that malloc() takes at the kth entry: all of it, or its end.
Take(r, fp, k, n) ==
  LET prev == Behind(r, fp)[k-1]
      p == Behind(r, fp)[k]
      b == IF r[p].size = n THEN p ELSE p + r[p].size - n
  IN  /\ ring' = IF r[p].size = n THEN Without([r EXCEPT ![prev].ptr = r[p].ptr], p)
                                  ELSE [r EXCEPT ![p].size = @ - n]
      /\ freep' = prev
      /\ taken' = With(taken, b, n)

\* malloc(): the first block from freep on that is large enough; without one
\* morecore() frees a new piece of core, and the search goes on from there.
malloc(n) ==
  LET fp == IF freep = -1 THEN 0 ELSE freep
      k == Found(ring, fp, n)
      nu == IF n < CORE THEN CORE ELSE n
      more == free(ring, brk, nu)
  IN  /\ IF k > 0 THEN Take(ring, fp, k, n) /\ UNCHANGED brk
         ELSE IF brk + nu > LIMIT THEN freep' = fp /\ UNCHANGED <<ring, taken, brk>>
         ELSE /\ Take(more.ring, more.freep, Found(more.ring, more.freep, n), n)
              /\ brk' = brk + nu
      /\ UNCHANGED foreign

Free(b) ==
  LET f == free(ring, b, taken[b])
  IN  /\ b \in DOMAIN taken
      /\ ring' = f.ring /\ freep' = f.freep
      /\ taken' = Without(taken, b)
      /\ UNCHANGED <<foreign, brk>>

\* The program calls sbrk() itself, and the core is no longer in one piece.
Sbrk ==
  /\ brk < LIMIT
  /\ foreign' = foreign \cup {brk} /\ brk' = brk + 1
  /\ UNCHANGED <<ring, freep, taken>>

Next == (\E n \in Units : malloc(n)) \/ (\E b \in 1..LIMIT : Free(b)) \/ Sbrk

Spec == Init /\ [][Next]_heapVars

-----------------------------------------------------------------------------
FreeUnits(b) == b..b + ring[b].size - 1
TakenUnits(b) == b..b + taken[b] - 1

\* Any sequence of malloc(), free() and sbrk() leaves the free list one ring in
\* the order of addresses, in which no two blocks touch; and every unit of the
\* core belongs to exactly one block, free or taken, or to the program.
HeapSound ==
  /\ freep = -1 \/ freep \in DOMAIN ring
  /\ \A b \in DOMAIN ring :
       LET above == {c \in DOMAIN ring : c > b}
       IN  /\ ring[b].ptr = IF above = {} THEN 0 ELSE CHOOSE c \in above : \A d \in above : c <= d
           /\ b # 0 => b + ring[b].size \notin DOMAIN ring
  /\ \A u \in 1..brk-1 :
       Cardinality({b \in DOMAIN ring \ {0} : u \in FreeUnits(b)})
         + Cardinality({b \in DOMAIN taken : u \in TakenUnits(b)})
         + Cardinality({u} \cap foreign) = 1
=============================================================================
