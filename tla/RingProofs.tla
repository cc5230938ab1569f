----------------------------- MODULE RingProofs -----------------------------
(***************************************************************************)
(* Proofs about the two ring buffers.  For any number of readers and       *)
(* writers, any size of the pipe and any width of its counters: the safety *)
(* properties of Pipe, and that the pipe implements Fifo.  For any size of *)
(* the buffer and any number of items: ItemsInOrder of BoundedBuffer.      *)
(***************************************************************************)
EXTENDS Pipe, BoundedBuffer, SequenceTheorems, TLAPS

\* p->lock between two steps: held by a process that is about to sleep.
LockOK == \A p \in Proc : lock = p <=> pc[p] = "tosleep"

\* A process inside pipewrite() or piperead() has its end open; an end that
\* nobody has open is closed, and the pipe is freed only when both are.
FdsOK ==
  /\ \A p \in Proc : pc[p] # "idle" => p \in fds
  /\ ~writeopen => Writer \cap fds = {}
  /\ ~readopen => Reader \cap fds = {}
  /\ freed => ~readopen /\ ~writeopen

\* NoLostWakeup, also while the lock is held, and for the process that holds it.
SleepOK ==
  \A p \in Proc : pc[p] \in {"tosleep", "asleep"} =>
    IF p \in Writer THEN Count = PIPESIZE /\ readopen
    ELSE /\ writeopen
         /\ Count = 0 \/ \E w \in Writer : killed[w]

\* The inductive invariant.
IInv == TypeOK /\ Count <= PIPESIZE /\ LockOK /\ FdsOK /\ SleepOK

-----------------------------------------------------------------------------
\* The quotient and the remainder of the C operators / and %.
LEMMA DivMod ==
  ASSUME NEW a \in Int, NEW b \in Nat \ {0}
  PROVE  \E q \in Int : \E r \in 0..b-1 : a % b = r /\ a = b * q + r
  <1> DEFINE q == a \div b
             r == a % b
  <1>1. a % b = a - b * (a \div b)  OBVIOUS
  <1>2. a \div b \in Int  OBVIOUS
  <1>3. a % b \in 0..b-1  OBVIOUS
  <1>4. q \in Int /\ r \in 0..b-1 /\ r = a - b * q  BY <1>1, <1>2, <1>3
  <1> HIDE DEF q, r
  <1>5. a = b * q + r  BY <1>4
  <1> QED  BY <1>4, <1>5, Zenon DEF q, r

\* There is only one remainder.
LEMMA ModUnique ==
  ASSUME NEW b \in Nat \ {0}, NEW q \in Int, NEW r \in 0..b-1, NEW a \in Int, a = b * q + r
  PROVE  a % b = r
  OBVIOUS

\* A multiple is at least as large.
LEMMA Multiple ==
  ASSUME NEW b \in Nat \ {0}, NEW x \in Int, x >= 1
  PROVE  b * x >= b
  OBVIOUS

\* A counter that wraps around keeps its slot: PIPESIZE divides UINT.
LEMMA ModShift ==
  ASSUME NEW b \in Nat \ {0}, NEW u \in Nat, u % b = 0, NEW a \in Nat, a >= u
  PROVE  (a - u) % b = a % b
  <1>0. a \in Int /\ u \in Int  OBVIOUS
  <1>1. PICK q \in Int, r \in 0..b-1 : a % b = r /\ a = b * q + r
    BY <1>0, DivMod, Zenon
  <1>2. PICK m \in Int, s \in 0..b-1 : u % b = s /\ u = b * m + s
    BY <1>0, DivMod, Zenon
  <1>3. s = 0  BY <1>2, Zenon
  <1>4. a - u = b * (q - m) + r /\ a - u \in Int /\ q - m \in Int
    BY <1>1, <1>2, <1>3
  <1>5. ASSUME NEW d \in Int, NEW x \in Int, d = b * x + r  PROVE d % b = r
    BY <1>5, ModUnique
  <1>6. (a - u) % b = r  BY <1>4, <1>5, Zenon
  <1> QED  BY <1>1, <1>6, Zenon

\* Fewer than b steps apart, two counters with the same slot are equal.
LEMMA ModDistinct ==
  ASSUME NEW b \in Nat \ {0}, NEW a \in Nat, NEW d \in 0..b-1, a % b = (a + d) % b
  PROVE  d = 0
  <1>0. a \in Int /\ a + d \in Int  OBVIOUS
  <1>1. PICK q \in Int, r \in 0..b-1 : a % b = r /\ a = b * q + r
    BY <1>0, DivMod, Zenon
  <1>2. PICK m \in Int, s \in 0..b-1 : (a + d) % b = s /\ a + d = b * m + s
    BY <1>0, DivMod, Zenon
  <1>3. s = r  BY <1>1, <1>2, Zenon
  <1>4. SUFFICES ASSUME NEW k \in Int, d = b * k  PROVE d = 0
    BY <1>1, <1>2, <1>3
  <1>5. ~(k >= 1)  BY <1>4, Multiple
  <1>6. CASE k = 0  BY <1>4, <1>6
  <1>7. CASE k <= -1  BY <1>4, <1>7
  <1> QED  BY <1>5, <1>6, <1>7

\* The counters hold two rounds of the buffer at least.
LEMMA UintSize == UINT >= 2 * PIPESIZE
  <1>0. UINT \in Int /\ PIPESIZE \in Nat \ {0}  BY PipeAssumption
  <1>1. PICK m \in Int, s \in 0..PIPESIZE-1 : UINT % PIPESIZE = s /\ UINT = PIPESIZE * m + s
    BY <1>0, DivMod, Zenon
  <1>2. UINT = PIPESIZE * m /\ UINT > PIPESIZE
    <2>1. s = 0  BY <1>1, PipeAssumption, Zenon
    <2> QED  BY <1>0, <1>1, <2>1, PipeAssumption
  <1>3. CASE m <= 1  BY <1>0, <1>2, <1>3
  <1>4. CASE m >= 2
    <2>1. PIPESIZE * (m - 1) >= PIPESIZE  BY <1>0, <1>4, Multiple
    <2> QED  BY <1>0, <1>2, <2>1
  <1> QED  BY <1>3, <1>4

\* uint arithmetic that wraps around once at most.
LEMMA Wrap ==
  ASSUME NEW z \in 0..2*UINT-1
  PROVE  /\ z < UINT => z % UINT = z
         /\ z >= UINT => (z % UINT) + UINT = z
  <1>1. UINT \in Nat \ {0}  BY PipeAssumption
  <1>2. CASE z < UINT
    <2>1. z = UINT * 0 + z  BY <1>1
    <2> QED  BY <1>1, <1>2, <2>1
  <1>3. CASE z >= UINT
    <2>1. z = UINT * 1 + (z - UINT)  BY <1>1
    <2> QED  BY <1>1, <1>3, <2>1
  <1> QED  BY <1>1, <1>2, <1>3

-----------------------------------------------------------------------------
\* The values of nread and nwrite.
Counter == 0..UINT-1

\* The constants as the arithmetic below uses them.
LEMMA UintFacts ==
  /\ UINT \in Nat \ {0} /\ PIPESIZE \in Nat \ {0} /\ UINT > PIPESIZE /\ UINT >= 2 * PIPESIZE
  /\ Counter \subseteq Nat
  BY PipeAssumption, UintSize DEF Counter

\* nwrite - nread in uint arithmetic, without the remainder.
LEMMA CountIs ==
  ASSUME NEW r \in Counter, NEW w \in Counter
  PROVE  (w + UINT - r) % UINT = IF r <= w THEN w - r ELSE w + UINT - r
  <1>1. w + UINT - r \in 0..2*UINT-1  BY UintFacts DEF Counter
  <1>2. /\ w + UINT - r < UINT => (w + UINT - r) % UINT = w + UINT - r
        /\ w + UINT - r >= UINT => ((w + UINT - r) % UINT) + UINT = w + UINT - r
    BY <1>1, Wrap, Zenon
  <1> QED  BY <1>2, UintFacts DEF Counter

\* A counter after at most a buffer full of bytes, without the remainder.
LEMMA AddIs ==
  ASSUME NEW c \in Counter, NEW k \in 0..PIPESIZE
  PROVE  /\ Add(c, k) = IF c + k < UINT THEN c + k ELSE c + k - UINT
         /\ Add(c, k) \in Counter
  <1>1. c + k \in 0..2*UINT-1  BY UintFacts DEF Counter
  <1>2. /\ c + k < UINT => (c + k) % UINT = c + k
        /\ c + k >= UINT => ((c + k) % UINT) + UINT = c + k
    BY <1>1, Wrap, Zenon
  <1> QED  BY <1>1, <1>2, UintFacts DEF Counter, Add

\* Writing k bytes adds k to the difference, ...
LEMMA CountAfterWrite ==
  ASSUME NEW r \in Counter, NEW w \in Counter, NEW k \in 0..PIPESIZE,
         ((w + UINT - r) % UINT) + k <= PIPESIZE
  PROVE  (Add(w, k) + UINT - r) % UINT = ((w + UINT - r) % UINT) + k
  <1>1. Add(w, k) \in Counter /\ Add(w, k) = IF w + k < UINT THEN w + k ELSE w + k - UINT
    BY AddIs
  <1>2. (w + UINT - r) % UINT = IF r <= w THEN w - r ELSE w + UINT - r  BY CountIs
  <1>3. (Add(w, k) + UINT - r) % UINT = IF r <= Add(w, k) THEN Add(w, k) - r ELSE Add(w, k) + UINT - r
    BY <1>1, CountIs
  <1> QED  BY <1>1, <1>2, <1>3, UintFacts DEF Counter

\* ... reading k bytes takes k away.
LEMMA CountAfterRead ==
  ASSUME NEW r \in Counter, NEW w \in Counter, NEW k \in 0..PIPESIZE,
         k <= (w + UINT - r) % UINT
  PROVE  (w + UINT - Add(r, k)) % UINT = ((w + UINT - r) % UINT) - k
  <1>1. Add(r, k) \in Counter /\ Add(r, k) = IF r + k < UINT THEN r + k ELSE r + k - UINT
    BY AddIs
  <1>2. (w + UINT - r) % UINT = IF r <= w THEN w - r ELSE w + UINT - r  BY CountIs
  <1>3. (w + UINT - Add(r, k)) % UINT = IF Add(r, k) <= w THEN w - Add(r, k) ELSE w + UINT - Add(r, k)
    BY <1>1, CountIs
  <1> QED  BY <1>1, <1>2, <1>3, UintFacts DEF Counter

\* The slots: in the buffer, ...
LEMMA AtIn ==
  ASSUME NEW c \in Counter, NEW j \in 1..PIPESIZE
  PROVE  At(c, j) \in Index
  <1>1. c + j - 1 \in 0..2*UINT-1  BY UintFacts DEF Counter
  <1>2. (c + j - 1) % UINT \in Nat  BY <1>1, Wrap, UintFacts
  <1> QED  BY <1>2, UintFacts DEF At, Index

\* ... the same whether one counts from c, or from k bytes further on, ...
LEMMA AtAdd ==
  ASSUME NEW c \in Counter, NEW k \in 0..PIPESIZE, NEW j \in 1..PIPESIZE
  PROVE  At(Add(c, k), j) = At(c, k + j)
  <1>1. Add(c, k) \in Counter /\ Add(c, k) = IF c + k < UINT THEN c + k ELSE c + k - UINT
    BY AddIs
  <1>2. Add(c, k) + j - 1 \in 0..2*UINT-1 /\ c + (k + j) - 1 \in 0..2*UINT-1
    BY <1>1, UintFacts DEF Counter
  <1>3. /\ Add(c, k) + j - 1 < UINT => (Add(c, k) + j - 1) % UINT = Add(c, k) + j - 1
        /\ Add(c, k) + j - 1 >= UINT => ((Add(c, k) + j - 1) % UINT) + UINT = Add(c, k) + j - 1
        /\ c + (k + j) - 1 < UINT => (c + (k + j) - 1) % UINT = c + (k + j) - 1
        /\ c + (k + j) - 1 >= UINT => ((c + (k + j) - 1) % UINT) + UINT = c + (k + j) - 1
    BY <1>2, Wrap, Zenon
  <1>4. (Add(c, k) + j - 1) % UINT = (c + (k + j) - 1) % UINT
    BY <1>1, <1>2, <1>3, UintFacts DEF Counter
  <1> QED  BY <1>4, Zenon DEF At

\* ... and different for the bytes of one round.
LEMMA AtDistinct ==
  ASSUME NEW c \in Counter, NEW i \in 1..PIPESIZE, NEW j \in 1..PIPESIZE, At(c, i) = At(c, j)
  PROVE  i = j
  <1>1. SUFFICES ASSUME NEW m \in 1..PIPESIZE, NEW n \in m+1..PIPESIZE, At(c, m) = At(c, n)
                 PROVE  FALSE
    BY UintFacts
  <1> DEFINE u == (c + m - 1) % UINT
             v == (c + n - 1) % UINT
  <1>2. c + m - 1 \in 0..2*UINT-1 /\ c + n - 1 \in 0..2*UINT-1  BY UintFacts DEF Counter
  <1>3. /\ c + m - 1 < UINT => u = c + m - 1
        /\ c + m - 1 >= UINT => u + UINT = c + m - 1
        /\ c + n - 1 < UINT => v = c + n - 1
        /\ c + n - 1 >= UINT => v + UINT = c + n - 1
    BY <1>2, Wrap, Zenon
  <1>4. u % PIPESIZE = v % PIPESIZE  BY <1>1 DEF At
  <1>5. u \in Nat /\ v \in Nat /\ n - m \in 0..PIPESIZE-1 /\ n - m # 0
    BY <1>2, UintFacts
  <1> HIDE DEF u, v
  <1>6. CASE v = u + (n - m)
    <2>1. u % PIPESIZE = (u + (n - m)) % PIPESIZE  BY <1>4, <1>6
    <2> QED  BY <1>5, <2>1, ModDistinct, UintFacts, Zenon
  <1>7. CASE v = u + (n - m) - UINT
    <2>1. u + (n - m) \in Nat /\ u + (n - m) >= UINT /\ v = (u + (n - m)) - UINT
      BY <1>5, <1>7, UintFacts
    <2>2. UINT % PIPESIZE = 0  BY PipeAssumption
    <2>3. ((u + (n - m)) - UINT) % PIPESIZE = (u + (n - m)) % PIPESIZE
      BY <2>1, <2>2, ModShift, UintFacts
    <2>4. u % PIPESIZE = (u + (n - m)) % PIPESIZE  BY <1>4, <2>1, <2>3
    <2> QED  BY <1>5, <2>4, ModDistinct, UintFacts, Zenon
  <1> QED  BY <1>2, <1>3, <1>5, <1>6, <1>7, UintFacts DEF Counter

\* The write counter is Count bytes ahead of the read counter.
LEMMA WriteIsAhead ==
  ASSUME NEW r \in Counter, NEW w \in Counter, (w + UINT - r) % UINT <= PIPESIZE
  PROVE  /\ (w + UINT - r) % UINT \in 0..PIPESIZE
         /\ w = Add(r, (w + UINT - r) % UINT)
  <1>1. (w + UINT - r) % UINT = IF r <= w THEN w - r ELSE w + UINT - r  BY CountIs
  <1> DEFINE k == (w + UINT - r) % UINT
  <1>2. k \in 0..PIPESIZE  BY <1>1, UintFacts DEF Counter
  <1>3. Add(r, k) = IF r + k < UINT THEN r + k ELSE r + k - UINT  BY <1>2, AddIs
  <1> QED  BY <1>1, <1>2, <1>3, UintFacts DEF Counter

-----------------------------------------------------------------------------
\* The counters in a state of the invariant.
LEMMA CountFacts ==
  ASSUME IInv
  PROVE  /\ nread \in Counter /\ nwrite \in Counter
         /\ Count \in 0..PIPESIZE /\ Room \in 0..PIPESIZE
         /\ nwrite = Add(nread, Count)
  <1>1. nread \in Counter /\ nwrite \in Counter  BY DEF IInv, TypeOK, Counter
  <1>2. Count \in 0..PIPESIZE /\ nwrite = Add(nread, Count)
    BY <1>1, WriteIsAhead DEF IInv, Count
  <1> QED  BY <1>1, <1>2, UintFacts DEF Room

\* The j-th byte that pipewrite() puts into the buffer comes behind all that are
\* there.
LEMMA WriteSlot ==
  ASSUME IInv, NEW j \in 1..Room
  PROVE  At(nwrite, j) = At(nread, Count + j) /\ Count + j \in 1..PIPESIZE
  <1>1. j \in 1..PIPESIZE  BY CountFacts, UintFacts
  <1>2. At(Add(nread, Count), j) = At(nread, Count + j)  BY <1>1, CountFacts, AtAdd
  <1> QED  BY <1>2, CountFacts, UintFacts DEF Room

\* What a round of pipewrite() does to the buffer and its counter.
LEMMA WriteEffect ==
  ASSUME IInv, NEW p \in Writer, PipeWrite(p), NEW k, k = Min(Len(rem[p]), Room)
  PROVE  /\ k \in 0..Room /\ k <= Len(rem[p]) /\ (k < Len(rem[p]) => k = Room)
         /\ nwrite' \in Counter /\ Count' = Count + k
         /\ data' \in [Index -> Val]
         /\ \A i \in 1..Count : data'[At(nread, i)] = data[At(nread, i)]
         /\ \A j \in 1..k : data'[At(nread, Count + j)] = rem[p][j]
  <1> DEFINE s == rem[p]
             at(i) == {j \in 1..k : At(nwrite, j) = i}
  <1>0. s \in Seq(Val)  BY DEF IInv, TypeOK
  <1>1. k \in 0..Room /\ k <= Len(s) /\ (k < Len(s) => k = Room)
    BY <1>0, CountFacts DEF Min
  <1>2. k \in 0..PIPESIZE /\ Count + k <= PIPESIZE  BY <1>1, CountFacts, UintFacts DEF Room
  <1>3. nwrite' = Add(nwrite, k) /\ nread' = nread  BY DEF PipeWrite
  <1>4. nwrite' \in Counter  BY <1>2, <1>3, CountFacts, AddIs
  <1>5. Count' = Count + k  BY <1>2, <1>3, CountFacts, CountAfterWrite DEF Count
  <1>6. data' = [i \in Index |-> IF at(i) = {} THEN data[i] ELSE s[CHOOSE j \in at(i) : TRUE]]
    BY DEF PipeWrite
  <1>7. data' \in [Index -> Val]
    <2>1. \A i \in Index : at(i) # {} => s[CHOOSE j \in at(i) : TRUE] \in Val
      <3> SUFFICES ASSUME NEW i \in Index, at(i) # {}  PROVE s[CHOOSE j \in at(i) : TRUE] \in Val
        OBVIOUS
      <3>1. (CHOOSE j \in at(i) : TRUE) \in 1..k  OBVIOUS
      <3>2. 1..k \subseteq 1..Len(s)  BY <1>0, <1>1, CountFacts
      <3> QED  BY <1>0, <3>1, <3>2, ElementOfSeq
    <2>2. \A i \in Index : data[i] \in Val  BY DEF IInv, TypeOK
    <2> QED  BY <1>6, <2>1, <2>2
  <1>8. ASSUME NEW i \in 1..Count  PROVE data'[At(nread, i)] = data[At(nread, i)]
    <2>0. i \in 1..PIPESIZE  BY CountFacts, UintFacts
    <2>1. i \in 1..PIPESIZE /\ At(nread, i) \in Index  BY <2>0, CountFacts, AtIn, Zenon
    <2>2. \A j \in 1..k : At(nwrite, j) # At(nread, i)
      <3> SUFFICES ASSUME NEW j \in 1..k, At(nwrite, j) = At(nread, i)  PROVE FALSE  OBVIOUS
      <3>1. j \in 1..Room  BY <1>1, CountFacts, UintFacts
      <3>2. At(nread, Count + j) = At(nread, i) /\ Count + j \in 1..PIPESIZE  BY <3>1, WriteSlot
      <3>3. Count + j = i  BY <2>1, <3>2, CountFacts, AtDistinct
      <3> QED  BY <3>1, <3>3, CountFacts, UintFacts
    <2>3. at(At(nread, i)) = {}  BY <2>2
    <2> QED  BY <1>6, <2>1, <2>3
  <1>9. ASSUME NEW j \in 1..k  PROVE data'[At(nread, Count + j)] = s[j]
    <2>1. j \in 1..Room  BY <1>1, CountFacts, UintFacts
    <2>0. At(nwrite, j) = At(nread, Count + j) /\ Count + j \in 1..PIPESIZE  BY <2>1, WriteSlot
    <2>a. j \in 1..PIPESIZE  BY <2>1, CountFacts, UintFacts
    <2>2. /\ At(nwrite, j) = At(nread, Count + j) /\ At(nread, Count + j) \in Index
          /\ j \in 1..PIPESIZE
      BY <2>0, <2>a, AtIn, CountFacts, Zenon
    <2>3. \A i \in 1..k : At(nwrite, i) = At(nwrite, j) => i = j
      <3> SUFFICES ASSUME NEW i \in 1..k, At(nwrite, i) = At(nwrite, j)  PROVE i = j  OBVIOUS
      <3>1. i \in 1..PIPESIZE  BY <1>2, UintFacts
      <3> QED  BY <2>2, <3>1, CountFacts, AtDistinct
    <2>4. at(At(nread, Count + j)) = {j}  BY <2>2, <2>3
    <2>5. (CHOOSE i \in {j} : TRUE) = j  OBVIOUS
    <2> QED  BY <1>6, <2>2, <2>4, <2>5
  <1> QED  BY <1>1, <1>4, <1>5, <1>7, <1>8, <1>9

\* What piperead() does to the counter when it finds bytes, or no writer.
LEMMA ReadEffect ==
  ASSUME IInv, NEW p \in Reader, NEW k, k = Min(want[p], Count), nread' = Add(nread, k),
         nwrite' = nwrite
  PROVE  /\ k \in 0..Count /\ k \in 0..PIPESIZE
         /\ nread' \in Counter /\ Count' = Count - k
  <1>1. k \in 0..Count /\ k \in 0..PIPESIZE  BY CountFacts, UintFacts DEF IInv, TypeOK, Min
  <1>2. nread' \in Counter  BY <1>1, CountFacts, AddIs
  <1>3. Count' = Count - k  BY <1>1, CountFacts, CountAfterRead DEF Count
  <1> QED  BY <1>1, <1>2, <1>3

\* The context of the late leaves is large: more time for each of them.
USE SMTT(30), ZenonT(30)

-----------------------------------------------------------------------------
\* pipealloc() establishes the invariant.
LEMMA InitIInv ==
  ASSUME Init
  PROVE  IInv
  <1>1. Count = 0
    <2>1. nwrite + UINT - nread = UINT  BY UintFacts DEF Init
    <2>2. UINT % UINT = 0  BY UintFacts
    <2> QED  BY <2>1, <2>2, Zenon DEF Count
  <1>a. <<>> \in Seq(Val)  OBVIOUS
  <1>b. rem \in [Writer -> Seq(Val)]  BY <1>a, Zenon DEF Init
  <1>c. nread \in 0..UINT-1 /\ nwrite \in 0..UINT-1 /\ want \in [Reader -> Nat]
    BY UintFacts DEF Init
  <1>d. /\ pc \in [Proc -> {"idle", "write", "read", "tosleep", "asleep"}]
        /\ killed \in [Proc -> BOOLEAN] /\ fds \subseteq Proc /\ lock \in Proc \cup {NoProc}
        /\ data \in [Index -> Val]
        /\ readopen \in BOOLEAN /\ writeopen \in BOOLEAN /\ freed \in BOOLEAN
    BY Zenon DEF Init
  <1>2. TypeOK  BY <1>b, <1>c, <1>d, Zenon DEF TypeOK
  <1>3. LockOK /\ FdsOK /\ SleepOK  BY PipeAssumption DEF Init, LockOK, FdsOK, SleepOK
  <1> QED  BY <1>1, <1>2, <1>3, UintFacts DEF IInv

\* write() and read() enter pipe.c with their end open.
LEMMA CallStep ==
  ASSUME IInv, NEW p \in Proc,
         \/ p \in Writer /\ \E s \in Message : WriteCall(p, s)
         \/ p \in Reader /\ \E n \in ReadSize : ReadCall(p, n)
  PROVE  IInv'
  <1>1. /\ pc[p] = "idle" /\ p \in fds
        /\ pc' = [pc EXCEPT ![p] = Loop(p)]
        /\ UNCHANGED <<data, nread, nwrite, readopen, writeopen, freed, lock, killed, fds>>
    BY PipeAssumption DEF WriteCall, ReadCall, Loop
  <1>2. rem' \in [Writer -> Seq(Val)] /\ want' \in [Reader -> Nat]
    BY PipeAssumption, Zenon DEF WriteCall, ReadCall, IInv, TypeOK
  <1>3. Count' = Count  BY <1>1 DEF Count
  <1>4. TypeOK'  BY <1>1, <1>2 DEF IInv, TypeOK, Loop
  <1>5. LockOK' /\ FdsOK'  BY <1>1 DEF IInv, TypeOK, LockOK, FdsOK, Loop
  <1>6. SleepOK'  BY <1>1, <1>3 DEF IInv, TypeOK, SleepOK, Loop
  <1> QED  BY <1>3, <1>4, <1>5, <1>6 DEF IInv

\* sleep() keeps what its caller has tested: p->lock is held until here.
LEMMA SleepStep ==
  ASSUME IInv, NEW p \in Proc, Sleep(p)
  PROVE  IInv'
  <1>1. Count' = Count  BY DEF Sleep, Count
  <1>2. TypeOK' /\ FdsOK'  BY DEF IInv, TypeOK, FdsOK, Sleep
  <1>3. LockOK'  BY PipeAssumption DEF IInv, TypeOK, LockOK, Sleep
  <1>4. SleepOK'  BY <1>1 DEF IInv, TypeOK, SleepOK, Sleep
  <1> QED  BY <1>1, <1>2, <1>3, <1>4 DEF IInv

\* kill() wakes its victim, and killed is never taken back.
LEMMA KillStep ==
  ASSUME IInv, NEW p \in Proc, Kill(p)
  PROVE  IInv'
  <1>1. Count' = Count  BY DEF Kill, Count
  <1>2. TypeOK' /\ FdsOK' /\ LockOK'  BY DEF IInv, TypeOK, FdsOK, LockOK, Kill, Loop
  <1>3. \A w \in Writer : killed[w] => killed'[w]  BY DEF IInv, TypeOK, Kill, Proc
  <1>4. \A i \in Proc : pc'[i] \in {"tosleep", "asleep"} => pc[i] = pc'[i]
    BY DEF IInv, TypeOK, Kill, Loop
  <1>5. SleepOK'  BY <1>1, <1>3, <1>4 DEF IInv, SleepOK, Kill
  <1> QED  BY <1>1, <1>2, <1>5 DEF IInv

\* pipeclose() by the last process of an end wakes everybody at the other.
LEMMA CloseStep ==
  ASSUME IInv, NEW p \in Proc, Close(p)
  PROVE  IInv'
  <1>1. Count' = Count  BY DEF Close, Count
  <1>2. /\ TypeOK
        /\ \A i \in Proc : pc'[i] # "idle" => pc[i] # "idle"
        /\ \A i \in Proc : pc'[i] = "tosleep" <=> pc[i] = "tosleep"
        /\ \A i \in Proc : pc'[i] = "asleep" => pc[i] = "asleep"
        /\ LastClose(p) => \A i \in Proc \ End(p) : pc'[i] # "asleep"
        /\ pc' \in [Proc -> {"idle", "write", "read", "tosleep", "asleep"}]
    BY DEF IInv, TypeOK, Close, Wakeup, Loop, End
  <1>3. TypeOK'  BY <1>2, Zenon DEF TypeOK, Close
  <1>4. LockOK'  BY <1>2, Zenon DEF IInv, LockOK, Close
  <1>5. FdsOK'  BY <1>2, PipeAssumption, Zenon DEF IInv, FdsOK, Close, LastClose, End, Proc
  <1>6. SleepOK'
    <2>1. CASE ~LastClose(p)  BY <1>1, <1>2, <2>1, Zenon DEF IInv, SleepOK, Close
    <2>2. CASE LastClose(p)
      <3>1. \A i \in Proc : pc'[i] # "tosleep"
        BY <1>2, <2>2, PipeAssumption, Zenon DEF IInv, LockOK, Close
      <3>2. \A i \in Proc : pc'[i] = "asleep" => i \in End(p) /\ pc[i] = "asleep"
        BY <1>2, <2>2
      <3> QED  BY <1>1, <2>2, <3>1, <3>2, PipeAssumption, Zenon DEF IInv, SleepOK, Close, End, Proc
    <2> QED  BY <2>1, <2>2
  <1> QED  BY <1>1, <1>3, <1>4, <1>5, <1>6 DEF IInv

\* pipewrite() wakes the readers unless it was killed or they are gone.
LEMMA PipeWriteStep ==
  ASSUME IInv, NEW p \in Writer, PipeWrite(p)
  PROVE  IInv'
  <1> DEFINE k == Min(Len(rem[p]), Room)
  <1>e. /\ k \in 0..Room /\ k <= Len(rem[p]) /\ (k < Len(rem[p]) => k = Room)
        /\ nwrite' \in Counter /\ Count' = Count + k
        /\ data' \in [Index -> Val]
    BY WriteEffect, Zenon
  <1>b. \/ /\ k = Len(rem[p])
           /\ pc' = Wakeup([pc EXCEPT ![p] = "idle"], Reader)
           /\ rem' = [rem EXCEPT ![p] = <<>>]
           /\ UNCHANGED lock
        \/ /\ k < Len(rem[p]) /\ (~readopen \/ killed[p])
           /\ pc' = [pc EXCEPT ![p] = "idle"]
           /\ rem' = [rem EXCEPT ![p] = <<>>]
           /\ UNCHANGED lock
        \/ /\ k < Len(rem[p]) /\ readopen /\ ~killed[p]
           /\ rem' = [rem EXCEPT ![p] = SubSeq(rem[p], k + 1, Len(rem[p]))]
           /\ pc' = Wakeup([pc EXCEPT ![p] = "tosleep"], Reader)
           /\ lock' = p
    BY DEF PipeWrite
  <1>f. /\ pc[p] = "write" /\ lock = NoProc
        /\ UNCHANGED <<nread, readopen, writeopen, freed, want, killed, fds>>
    BY DEF PipeWrite
  <1>t. TypeOK /\ p \in Proc /\ rem[p] \in Seq(Val)  BY DEF IInv, TypeOK, Proc
  <1>c. Count \in 0..PIPESIZE /\ Room = PIPESIZE - Count /\ Room \in 0..PIPESIZE
    BY CountFacts DEF Room
  <1> HIDE DEF k
  <1>1. Count' <= PIPESIZE /\ (k = Room => Count' = PIPESIZE)
    BY <1>e, <1>c, UintFacts
  <1>2. rem' \in [Writer -> Seq(Val)] /\ lock' \in Proc \cup {NoProc}
    <2>1. k < Len(rem[p]) => SubSeq(rem[p], k + 1, Len(rem[p])) \in Seq(Val)
      BY <1>e, <1>t, <1>c
    <2>2. <<>> \in Seq(Val)  OBVIOUS
    <2>3. \E s \in Seq(Val) : rem' = [rem EXCEPT ![p] = s]
      BY <1>b, <2>1, <2>2, Zenon
    <2>4. rem' \in [Writer -> Seq(Val)]  BY <1>t, <2>3 DEF TypeOK
    <2> QED  BY <1>b, <1>t, <2>4 DEF TypeOK
  <1>3. /\ pc' \in [Proc -> {"idle", "write", "read", "tosleep", "asleep"}]
        /\ \A i \in Proc \ {p} : pc'[i] # "idle" => pc[i] # "idle"
        /\ \A i \in Proc \ {p} : pc'[i] = "tosleep" <=> pc[i] = "tosleep"
        /\ \A i \in Proc : pc'[i] = "asleep" => pc[i] = "asleep"
    BY <1>b, <1>f, <1>t, Zenon DEF TypeOK, Wakeup, Loop
  <1>4. TypeOK'  BY <1>e, <1>2, <1>3, <1>f, <1>t DEF TypeOK, Counter
  <1>5. LockOK'
    <2>1. \A i \in Proc : pc[i] # "tosleep"  BY <1>f, PipeAssumption DEF IInv, LockOK
    <2>2. lock' = p <=> pc'[p] = "tosleep"
      BY <1>b, <1>f, <1>t, PipeAssumption DEF TypeOK, Wakeup
    <2>3. lock' \in {p, NoProc}  BY <1>b, <1>f
    <2> QED  BY <1>3, <1>t, <2>1, <2>2, <2>3, PipeAssumption DEF LockOK
  <1>6. FdsOK'  BY <1>3, <1>f, <1>t DEF IInv, FdsOK
  <1>7. SleepOK'
    <2> SUFFICES ASSUME NEW i \in Proc, pc'[i] \in {"tosleep", "asleep"}
        PROVE  IF i \in Writer THEN Count' = PIPESIZE /\ readopen
               ELSE writeopen /\ (Count' = 0 \/ \E w \in Writer : killed[w])
      BY <1>f DEF SleepOK
    <2>1. CASE i = p
      BY <1>b, <1>e, <1>f, <1>t, <1>1, <2>1 DEF TypeOK, Wakeup
    <2>2. CASE i # p
      <3>1. pc[i] = "asleep"  BY <1>3, <1>f, <2>2, PipeAssumption DEF IInv, LockOK
      <3>2. CASE i \in Writer
        <4>1. Count = PIPESIZE /\ readopen  BY <3>1, <3>2 DEF IInv, SleepOK
        <4> QED  BY <4>1, <1>c, <1>e, <3>2, UintFacts
      <3>3. CASE i \notin Writer
        <4>1. writeopen /\ i \in Reader /\ i \in fds
          BY <3>1, <3>3 DEF IInv, SleepOK, FdsOK, Proc
        <4>2. readopen  BY <4>1 DEF IInv, FdsOK
        <4>3. killed[p]
          BY <1>b, <1>t, <4>1, <4>2, <2>2, <3>1 DEF TypeOK, Wakeup, Loop
        <4> QED  BY <3>3, <4>1, <4>3
      <3> QED  BY <3>2, <3>3
    <2> QED  BY <2>1, <2>2
  <1> QED  BY <1>1, <1>4, <1>5, <1>6, <1>7 DEF IInv

\* piperead() wakes the writers when it has made room, and goes to sleep only on
\* an empty pipe with a writer.
LEMMA PipeReadStep ==
  ASSUME IInv, NEW p \in Reader, PipeRead(p)
  PROVE  IInv'
  <1> DEFINE k == Min(want[p], Count)
  <1>f. /\ pc[p] = "read" /\ lock = NoProc
        /\ UNCHANGED <<data, nwrite, readopen, writeopen, freed, rem, killed, fds>>
    BY DEF PipeRead
  <1>t. TypeOK /\ p \in Proc /\ p \notin Writer
    BY PipeAssumption DEF IInv, Proc
  <1>n. \A i \in Proc : pc[i] # "tosleep"  BY <1>f, PipeAssumption DEF IInv, LockOK
  <1>1. CASE /\ Count = 0 /\ writeopen
             /\ \/ /\ ~killed[p] /\ pc' = [pc EXCEPT ![p] = "tosleep"]
                   /\ lock' = p /\ UNCHANGED <<nread, want>>
                \/ /\ pc' = [pc EXCEPT ![p] = "idle"] /\ want' = [want EXCEPT ![p] = 0]
                   /\ UNCHANGED <<nread, lock>>
    <2>1. Count' = Count  BY <1>1, <1>f DEF Count
    <2>w. want' \in [Reader -> Nat]  BY <1>1, <1>t DEF TypeOK
    <2>p. /\ pc' \in [Proc -> {"idle", "write", "read", "tosleep", "asleep"}]
          /\ lock' \in Proc \cup {NoProc} /\ nread' = nread
      BY <1>1, <1>t DEF TypeOK
    <2>2. TypeOK'  BY <1>f, <1>t, <2>w, <2>p DEF TypeOK
    <2>3. LockOK' /\ FdsOK'
      BY <1>1, <1>f, <1>t, <1>n, PipeAssumption DEF IInv, TypeOK, LockOK, FdsOK
    <2>4. \A i \in Proc \ {p} : pc'[i] = pc[i]  BY <1>1, <1>t DEF TypeOK
    <2>5. SleepOK'  BY <1>1, <1>f, <1>t, <2>1, <2>4 DEF IInv, SleepOK
    <2> QED  BY <2>1, <2>2, <2>3, <2>5 DEF IInv
  <1>2. CASE /\ Count > 0 \/ ~writeopen
             /\ nread' = Add(nread, k)
             /\ pc' = Wakeup([pc EXCEPT ![p] = "idle"], Writer)
             /\ want' = [want EXCEPT ![p] = 0] /\ UNCHANGED lock
    <2>1. k \in 0..Count /\ nread' \in Counter /\ Count' = Count - k
      BY <1>2, <1>f, ReadEffect, Zenon
    <2> HIDE DEF k
    <2>2. Count' <= PIPESIZE  BY <2>1, CountFacts, UintFacts
    <2>3. /\ pc' \in [Proc -> {"idle", "write", "read", "tosleep", "asleep"}]
          /\ pc'[p] = "idle"
          /\ \A i \in Proc : pc'[i] # "idle" => pc[i] # "idle"
          /\ \A i \in Proc : pc'[i] # "tosleep"
          /\ \A i \in Proc : pc'[i] = "asleep" => pc[i] = "asleep" /\ i \notin Writer
      BY <1>2, <1>t, <1>f, <1>n DEF TypeOK, Wakeup, Loop
    <2>4. TypeOK'  BY <1>2, <1>f, <1>t, <2>1, <2>3, Zenon DEF TypeOK, Counter
    <2>5. LockOK' /\ FdsOK'
      BY <1>2, <1>f, <2>3, PipeAssumption, Zenon DEF IInv, LockOK, FdsOK
    <2>6. SleepOK'
      <3> SUFFICES ASSUME NEW i \in Proc, pc'[i] = "asleep"
          PROVE  i \notin Writer /\ writeopen /\ \E w \in Writer : killed[w]
        BY <1>f, <2>3 DEF SleepOK
      <3>1. pc[i] = "asleep" /\ i \notin Writer  BY <2>3
      <3>2. writeopen /\ (Count = 0 \/ \E w \in Writer : killed[w])
        BY <3>1 DEF IInv, SleepOK
      <3>3. Count # 0  BY <1>2, <3>2
      <3> QED  BY <3>1, <3>2, <3>3
    <2> QED  BY <2>2, <2>4, <2>5, <2>6 DEF IInv
  <1> QED  BY <1>1, <1>2 DEF PipeRead

\* Every step of the pipe and of the processes at its ends keeps the invariant.
LEMMA NextIInv ==
  ASSUME IInv, [Next]_vars
  PROVE  IInv'
  <1>1. CASE UNCHANGED vars
    <2>1. Count' = Count  BY <1>1 DEF vars, Count
    <2>2. TypeOK' /\ LockOK' /\ FdsOK' /\ SleepOK'
      BY <1>1, <2>1 DEF IInv, vars, TypeOK, LockOK, FdsOK, SleepOK
    <2> QED  BY <2>1, <2>2 DEF IInv
  <1>2. CASE Next
    <2>1. ASSUME NEW p \in Proc, Sleep(p)  PROVE IInv'  BY <2>1, SleepStep
    <2>2. ASSUME NEW p \in Writer, PipeWrite(p)  PROVE IInv'  BY <2>2, PipeWriteStep
    <2>3. ASSUME NEW p \in Reader, PipeRead(p)  PROVE IInv'  BY <2>3, PipeReadStep
    <2>4. ASSUME NEW p \in Proc, Kill(p)  PROVE IInv'  BY <2>4, KillStep
    <2>5. ASSUME NEW p \in Proc, Close(p)  PROVE IInv'  BY <2>5, CloseStep
    <2>6. ASSUME NEW p \in Writer, NEW s \in Message, WriteCall(p, s)  PROVE IInv'
      BY <2>6, CallStep, Zenon DEF Proc
    <2>7. ASSUME NEW p \in Reader, NEW n \in ReadSize, ReadCall(p, n)  PROVE IInv'
      BY <2>7, CallStep, Zenon DEF Proc
    <2> QED  BY <1>2, <2>1, <2>2, <2>3, <2>4, <2>5, <2>6, <2>7, Zenon DEF Next, Step
  <1> QED  BY <1>1, <1>2

\* The invariant of the pipe: the counters are never further apart than the
\* buffer is long, and nobody sleeps on a condition that has come true, also
\* while p->lock is held.
THEOREM SpecIInv == Spec => []IInv
  <1>1. Init => IInv  BY InitIInv
  <1>2. IInv /\ [Next]_vars => IInv'  BY NextIInv
  <1> QED  BY <1>1, <1>2, PTL DEF Spec

\* For every number of readers and writers, every PIPESIZE and every width of the
\* counters: nobody is inside a pipe that has been freed, and no wakeup of
\* pipewrite(), piperead() and pipeclose() is lost.
THEOREM SpecPipeSound == Spec => []PipeSound
  <1>1. IInv => PipeSound
    <2> SUFFICES ASSUME IInv  PROVE PipeSound  OBVIOUS
    <2>1. TypeOK  BY DEF IInv
    <2>2. NoUseAfterFree  BY DEF IInv, FdsOK, NoUseAfterFree, Proc
    <2>3. NoLostWakeup  BY DEF IInv, SleepOK, NoLostWakeup
    <2> QED  BY <2>1, <2>2, <2>3 DEF PipeSound
  <1> QED  BY <1>1, SpecIInv, PTL

-----------------------------------------------------------------------------
\* The refinement mapping: the bytes between nread and nwrite, oldest first.
Q == [i \in 1..Count |-> data[At(nread, i)]]

\* A sequence of at most PIPESIZE bytes.
QOK ==
  /\ Count \in 0..PIPESIZE
  /\ Q \in Seq(Val) /\ Len(Q) = Count
  /\ \A i \in 1..Count : Q[i] = data[At(nread, i)]

\* The mapping is one as long as the invariant holds.
LEMMA QSeq ==
  ASSUME IInv
  PROVE  QOK
  <1>1. Count \in Nat /\ \A i \in 1..Count : i \in 1..PIPESIZE  BY CountFacts, UintFacts
  <1>2. \A i \in 1..Count : At(nread, i) \in Index  BY <1>1, CountFacts, AtIn, Zenon
  <1>3. \A i \in 1..Count : data[At(nread, i)] \in Val  BY <1>2 DEF IInv, TypeOK
  <1>4. Q \in [1..Count -> Val]  BY <1>3 DEF Q
  <1>5. \A n \in Nat : \A f \in [1..n -> Val] : f \in Seq(Val) /\ Len(f) = n  OBVIOUS
  <1>6. Q \in Seq(Val) /\ Len(Q) = Count  BY <1>1, <1>4, <1>5, Zenon
  <1> QED  BY <1>6, CountFacts DEF Q, QOK

\* The same after a step.
LEMMA QSeqNext == IInv' => QOK'
  <1>1. IInv => QOK  BY QSeq
  <1> QED  BY <1>1, PTL

\* pipealloc() makes an empty stream.
LEMMA InitFifo ==
  ASSUME Init
  PROVE  F!FifoInit
  <1>1. IInv  BY InitIInv
  <1>2. Count = 0
    <2>1. nwrite + UINT - nread = UINT  BY UintFacts DEF Init
    <2>2. UINT % UINT = 0  BY UintFacts
    <2> QED  BY <2>1, <2>2, Zenon DEF Count
  <1>3. Q = <<>>
    <2>1. Q \in Seq(Val) /\ Len(Q) = 0  BY <1>1, <1>2, QSeq, Zenon DEF QOK
    <2> QED  BY <2>1, EmptySeq
  <1> QED  BY <1>3, Zenon DEF Init, F!FifoInit, Q

\* A step that appends bytes which fit is a Send.
LEMMA SendMaps ==
  ASSUME IInv', NEW n \in 0..PIPESIZE, NEW s \in [1..n -> Val], Q' = Q \o s, out' = <<>>
  PROVE  F!Send
  <1>1. Len(Q') <= PIPESIZE  BY QSeqNext, UintFacts DEF QOK
  <1> QED  BY <1>1, Zenon DEF F!Send, Q

\* A step that hands out a prefix of the stream is a Receive.
LEMMA ReceiveMaps ==
  ASSUME NEW n \in 0..Len(Q), out' = SubSeq(Q, 1, n), Q' = SubSeq(Q, n + 1, Len(Q))
  PROVE  F!Receive
  BY Zenon DEF F!Receive, Q

\* A step that touches neither the buffer nor the counters sends nothing.
LEMMA SilentMaps ==
  ASSUME IInv, IInv', UNCHANGED <<data, nread, nwrite>>, out' = <<>>
  PROVE  F!Send
  <1>1. Q' = Q  BY DEF Q, Count
  <1>2. Q \o <<>> = Q  BY QSeq DEF QOK
  <1>3. <<>> \in [1..0 -> Val] /\ 0 \in 0..PIPESIZE  BY UintFacts
  <1>4. Q' = Q \o <<>>  BY <1>1, <1>2
  <1> QED  BY <1>3, <1>4, SendMaps, Zenon


\* A round of pipewrite() appends the bytes it has room for.
LEMMA PipeWriteMaps ==
  ASSUME IInv, IInv', NEW p \in Writer, PipeWrite(p)
  PROVE  F!Send
  <1> DEFINE k == Min(Len(rem[p]), Room)
             s == [j \in 1..k |-> rem[p][j]]
  <1>e. /\ k \in 0..Room /\ k <= Len(rem[p])
        /\ Count' = Count + k
        /\ \A i \in 1..Count : data'[At(nread, i)] = data[At(nread, i)]
        /\ \A j \in 1..k : data'[At(nread, Count + j)] = rem[p][j]
    BY WriteEffect, Zenon
  <1>f. nread' = nread /\ out' = <<>>  BY DEF PipeWrite
  <1>q. QOK /\ QOK'  BY QSeq, QSeqNext
  <1>t. rem[p] \in Seq(Val)  BY DEF IInv, TypeOK
  <1>k. k \in Nat /\ k \in 0..PIPESIZE  BY <1>e, CountFacts, UintFacts
  <1> HIDE DEF k
  <1>1. s \in [1..k -> Val]
    <2>1. \A j \in 1..k : j \in 1..Len(rem[p])  BY <1>e, <1>k, <1>t
    <2> QED  BY <1>t, <2>1, ElementOfSeq
  <1>2. s \in Seq(Val) /\ Len(s) = k  BY <1>1, <1>k
  <1>3. \A j \in 1..k : s[j] = rem[p][j]  OBVIOUS
  <1> HIDE DEF s
  <1>4. /\ Q \o s \in Seq(Val) /\ Len(Q \o s) = Count + k
        /\ \A i \in 1..Count + k : (Q \o s)[i] = IF i <= Count THEN Q[i] ELSE s[i - Count]
    BY <1>q, <1>2, ConcatProperties, Zenon DEF QOK
  <1>5. ASSUME NEW i \in 1..Count + k  PROVE Q'[i] = (Q \o s)[i]
    <2>1. Count \in Nat /\ Q'[i] = data'[At(nread, i)]  BY <1>q, <1>e, <1>f, <1>k, CountFacts DEF QOK
    <2>2. CASE i <= Count
      <3>1. i \in 1..Count  BY <2>1, <2>2, <1>k
      <3>2. Q'[i] = Q[i]  BY <2>1, <3>1, <1>e, <1>q DEF QOK
      <3> QED  BY <1>4, <2>2, <3>2
    <2>3. CASE ~(i <= Count)
      <3>1. PICK j \in 1..k : i = Count + j
        <4>1. i - Count \in 1..k /\ i = Count + (i - Count)  BY <2>1, <2>3, <1>k
        <4> QED  BY <4>1
      <3>2. i - Count = j  BY <2>1, <3>1, <1>k
      <3>3. Q'[i] = rem[p][j]  BY <1>e, <2>1, <3>1, Zenon
      <3>4. (Q \o s)[i] = s[j]  BY <1>4, <2>3, <3>2
      <3> QED  BY <1>3, <3>3, <3>4
    <2> QED  BY <2>2, <2>3, Zenon
  <1>6. Q' \in Seq(Val) /\ Len(Q') = Count + k  BY <1>q, <1>e DEF QOK
  <1>7. Q' = Q \o s  BY <1>4, <1>5, <1>6, SeqEqual
  <1> QED  BY <1>1, <1>7, <1>f, <1>k, SendMaps, Zenon

\* piperead() hands out the oldest bytes, as many as were asked for.
LEMMA PipeReadMaps ==
  ASSUME IInv, IInv', NEW p \in Reader, PipeRead(p)
  PROVE  F!Send \/ F!Receive
  <1> DEFINE k == Min(want[p], Count)
  <1>1. CASE UNCHANGED <<data, nread, nwrite>> /\ out' = <<>>
    BY <1>1, SilentMaps, Zenon
  <1>2. CASE /\ out' = [j \in 1..k |-> data[At(nread, j)]]
             /\ nread' = Add(nread, k) /\ UNCHANGED <<data, nwrite>>
    <2>e. k \in 0..Count /\ k \in 0..PIPESIZE /\ Count' = Count - k
      BY <1>2, ReadEffect, Zenon
    <2>q. QOK /\ QOK'  BY QSeq, QSeqNext
    <2>c. Count \in Nat /\ nread \in Counter  BY CountFacts
    <2> HIDE DEF k
    <2>k. k \in Nat /\ k <= Count  BY <2>e, <2>c
    <2>1. SubSeq(Q, 1, k) = [j \in 1..k |-> Q[j]]  BY <2>q, <2>k, <2>c DEF QOK
    <2>2. \A j \in 1..k : Q[j] = data[At(nread, j)]  BY <2>q, <2>k, <2>c DEF QOK
    <2>3. out' = SubSeq(Q, 1, k)  BY <1>2, <2>1, <2>2, Zenon
    <2>4. /\ SubSeq(Q, k + 1, Len(Q)) \in Seq(Val)
          /\ Len(SubSeq(Q, k + 1, Len(Q))) = Count - k
          /\ \A i \in 1..Count - k : SubSeq(Q, k + 1, Len(Q))[i] = Q[k + i]
      BY <2>q, <2>k, <2>c DEF QOK
    <2>5. ASSUME NEW i \in 1..Count - k  PROVE Q'[i] = Q[k + i]
      <3>1. i \in 1..PIPESIZE /\ k + i \in 1..Count
        BY <2>k, <2>c, CountFacts, UintFacts
      <3>2. Q'[i] = data[At(Add(nread, k), i)]  BY <2>q, <2>e, <1>2, Zenon DEF QOK
      <3>3. At(Add(nread, k), i) = At(nread, k + i)  BY <2>e, <2>c, <3>1, AtAdd, Zenon
      <3>4. Q[k + i] = data[At(nread, k + i)]  BY <2>q, <3>1, Zenon DEF QOK
      <3> QED  BY <3>2, <3>3, <3>4, Zenon
    <2>6. Q' \in Seq(Val) /\ Len(Q') = Count - k  BY <2>q, <2>e DEF QOK
    <2>7. Q' = SubSeq(Q, k + 1, Len(Q))  BY <2>4, <2>5, <2>6, SeqEqual, Zenon
    <2>8. k \in 0..Len(Q)  BY <2>q, <2>e DEF QOK
    <2> QED  BY <2>3, <2>7, <2>8, ReceiveMaps, Zenon
  <1> QED  BY <1>1, <1>2 DEF PipeRead

\* The pipe is a byte stream: the bytes that readers get are those the writers
\* have put in, each once and in order, for every number of readers and writers
\* and wherever the counters wrap around.
THEOREM SpecImplementsFifo == Spec => ImplementsFifo
  <1>1. Init => F!FifoInit  BY InitFifo
  <1>2. IInv /\ IInv' /\ [Next]_vars => [F!Send \/ F!Receive]_<<Q, out>>
    <2> SUFFICES ASSUME IInv, IInv', [Next]_vars
        PROVE  (F!Send \/ F!Receive) \/ (Q' = Q /\ out' = out)
      OBVIOUS
    <2>1. CASE UNCHANGED vars
      <3>1. Q' = Q  BY <2>1 DEF vars, Q, Count
      <3> QED  BY <2>1, <3>1 DEF vars
    <2>2. ASSUME NEW p \in Proc, Sleep(p) \/ Kill(p) \/ Close(p)  PROVE F!Send
      <3>1. UNCHANGED <<data, nread, nwrite>> /\ out' = <<>>  BY <2>2 DEF Sleep, Kill, Close
      <3> QED  BY <3>1, SilentMaps, Zenon
    <2>3. ASSUME NEW p \in Writer, NEW s \in Message, WriteCall(p, s)  PROVE F!Send
      <3>1. UNCHANGED <<data, nread, nwrite>> /\ out' = <<>>  BY <2>3 DEF WriteCall
      <3> QED  BY <3>1, SilentMaps, Zenon
    <2>4. ASSUME NEW p \in Reader, NEW n \in ReadSize, ReadCall(p, n)  PROVE F!Send
      <3>1. UNCHANGED <<data, nread, nwrite>> /\ out' = <<>>  BY <2>4 DEF ReadCall
      <3> QED  BY <3>1, SilentMaps, Zenon
    <2>5. ASSUME NEW p \in Writer, PipeWrite(p)  PROVE F!Send
      BY <2>5, PipeWriteMaps, Zenon
    <2>6. ASSUME NEW p \in Reader, PipeRead(p)  PROVE F!Send \/ F!Receive
      BY <2>6, PipeReadMaps, Zenon
    <2> QED  BY <2>1, <2>2, <2>3, <2>4, <2>5, <2>6, Zenon DEF Next, Step
  <1> QED  BY <1>1, <1>2, SpecIInv, PTL DEF Spec, ImplementsFifo, F!FifoSpec, Q

-----------------------------------------------------------------------------
\* The bounded buffer of buf.c and prodcons.c: the threads have been created.
Created == thread["producer"].pc # 0

\* The items that the producer has stored, and those that the consumer has read.
Written == IF thread["producer"].pc > 3 THEN thread["producer"].i ELSE thread["producer"].i - 1
Taken == IF thread["consumer"].pc > 3 THEN thread["consumer"].i ELSE thread["consumer"].i - 1

\* Each semaphore counts: vacios the slots that the producer may still fill, llenos
\* the items that the consumer may still read.
TokensOK ==
  /\ sem["vacios"] = BUFFER_SIZE - (thread["producer"].i - 1) - Holds("producer")
                       + (thread["consumer"].i - 1)
  /\ sem["llenos"] = (thread["producer"].i - 1) - (thread["consumer"].i - 1) - Holds("consumer")
  /\ sem["vacios"] >= 0 /\ sem["llenos"] >= 0

\* The last BUFFER_SIZE items are in their slots, and what was read was read in order.
ItemsOK ==
  /\ \A k \in 1..Written : k > Written - BUFFER_SIZE => slots[(k - 1) % BUFFER_SIZE] = k
  /\ Len(results) = Taken
  /\ \A k \in 1..Taken : results[k] = k

\* main() of prodcons.c on its way to the threads, in a run that found no semaphores:
\* what it has created so far, and the values it has brought them to.
Ready ==
  /\ todo = "open_mutex" => named = {} /\ posts = 0
  /\ todo = "open_vacios" => named \subseteq {"mutex"} /\ posts = 0
  /\ todo = "post_vacios" => /\ named \subseteq {"mutex", "vacios"} /\ posts <= BUFFER_SIZE - 1
                             /\ sem["vacios"] = posts + 1
  /\ todo \in {"wait_llenos", "create"} => sem["vacios"] = BUFFER_SIZE
  /\ todo = "wait_llenos" => sem["llenos"] = 1
  /\ todo = "create" => sem["llenos"] = 0

\* The types of the variables.
BufferTypes ==
  /\ prog \in {"buf", "prodcons"} /\ posts \in Nat /\ clean \in BOOLEAN
  /\ sem \in [Sem -> Int] /\ thread \in [Role -> [pc : 0..5, i : Nat \ {0}]]
  /\ slots \in [0..BUFFER_SIZE-1 -> Nat] /\ results \in Seq(Nat)

\* The inductive invariant of the bounded buffer.
BufferOK ==
  /\ BufferTypes
  /\ thread["consumer"].pc # 0 <=> Created
  /\ ~Created => thread = NoThreads /\ slots = Fresh /\ results = <<>>
  /\ Created <=> todo \in {"destroy", "join", "unlink_mutex", "unlink_llenos", "unlink_vacios", "end"}
  /\ clean /\ prog = "prodcons" => Ready
  /\ clean /\ Created => TokensOK /\ ItemsOK

-----------------------------------------------------------------------------
\* Two items that are less than the buffer apart have slots of their own.
LEMMA SlotsApart ==
  ASSUME NEW b \in Nat \ {0}, NEW x \in Nat, NEW y \in Nat, x < y, y - x < b
  PROVE  x % b # y % b
  <1>1. y - x \in 0..b-1 /\ y = x + (y - x) /\ y - x # 0  OBVIOUS
  <1> QED  BY <1>1, ModDistinct, Zenon

\* What is assumed of the sizes.
LEMMA BufferNats == BUFFER_SIZE \in Nat \ {0} /\ ITEMS \in Nat  BY BufferAssumption

\* The steps of producer() and consumer() in their order.
LEMMA LoopSteps ==
  ASSUME NEW t \in Role
  PROVE  /\ ThreadLoop(t)[1] = IF t = "producer" THEN "vacios" ELSE "llenos"
         /\ ThreadLoop(t)[2] = "lock" /\ ThreadLoop(t)[3] = "access" /\ ThreadLoop(t)[4] = "unlock"
         /\ ThreadLoop(t)[5] = IF t = "producer" THEN "llenos" ELSE "vacios"
  BY DEF ThreadLoop

\* Which step of its loop a thread is at.
LEMMA AtSteps ==
  ASSUME BufferTypes, NEW t \in Role, NEW s, AtStep(t, s)
  PROVE  /\ thread[t].pc \in 1..5
         /\ s = "lock" => thread[t].pc = 2
         /\ s = "access" => thread[t].pc = 3
         /\ s = "unlock" => thread[t].pc = 4
         /\ s \in {"vacios", "llenos"} /\ thread[t].pc # 1 => thread[t].pc = 5 /\ s = ThreadLoop(t)[5]
  <1>1. PICK n : n = thread[t].pc  OBVIOUS
  <1>2. n \in 0..5 /\ n # 0 /\ ThreadLoop(t)[n] = s  BY <1>1 DEF BufferTypes, AtStep
  <1>3. n = 1 \/ n = 2 \/ n = 3 \/ n = 4 \/ n = 5  BY <1>2
  <1>4. n = 1 => s \in {"vacios", "llenos"}  BY <1>2, LoopSteps
  <1> QED  BY <1>1, <1>2, <1>3, <1>4, LoopSteps

\* A step of one thread: where it goes, and that the other stays.
Advances(t) ==
  /\ thread' \in [Role -> [pc : 0..5, i : Nat \ {0}]]
  /\ thread'[t].pc \in 1..5
  /\ thread[t].pc = 5 => thread'[t].pc = 1 /\ thread'[t].i = thread[t].i + 1
  /\ thread[t].pc # 5 => thread'[t].pc = thread[t].pc + 1 /\ thread'[t].i = thread[t].i
  /\ \A u \in Role : u # t => thread'[u] = thread[u]

\* Every step of producer() and consumer() ends in such an advance.
LEMMA AdvanceStep ==
  ASSUME BufferTypes, NEW t \in Role, thread[t].pc \in 1..5, Advance(t)
  PROVE  Advances(t)
  <1>1. PICK n, j : n = thread[t].pc /\ j = thread[t].i  OBVIOUS
  <1>2. n \in 1..5 /\ j \in Nat \ {0}  BY <1>1 DEF BufferTypes
  <1>3. PICK m : m = IF n = 5 THEN [pc |-> 1, i |-> j + 1] ELSE [pc |-> n + 1, i |-> j]  BY Zenon
  <1>4. thread' = [thread EXCEPT ![t] = m]  BY <1>1, <1>3 DEF Advance
  <1>5. /\ m \in [pc : 0..5, i : Nat \ {0}] /\ m.pc \in 1..5
        /\ n = 5 => m.pc = 1 /\ m.i = j + 1
        /\ n # 5 => m.pc = n + 1 /\ m.i = j
    BY <1>2, <1>3
  <1>6. /\ thread' \in [Role -> [pc : 0..5, i : Nat \ {0}]] /\ thread'[t] = m
        /\ \A u \in Role : u # t => thread'[u] = thread[u]
    BY <1>4, <1>5 DEF BufferTypes
  <1> QED  BY <1>1, <1>5, <1>6 DEF Advances

\* The threads once they run: no more is left to show than the tokens and the items.
LEMMA RunsOn ==
  ASSUME BufferOK, BufferTypes', NEW t \in Role, thread[t].pc \in 1..5, Advances(t),
         todo' = todo, clean' = clean, TokensOK /\ ItemsOK => TokensOK' /\ ItemsOK'
  PROVE  BufferOK'
  <1>1. Created /\ thread["consumer"].pc # 0  BY DEF BufferOK, Created, Role
  <1>2. Created' /\ thread'["consumer"].pc # 0  BY <1>1 DEF Created, Role, Advances
  <1>3. todo \in {"destroy", "join", "unlink_mutex", "unlink_llenos", "unlink_vacios", "end"}
    BY <1>1, Zenon DEF BufferOK
  <1>4. Ready'  BY <1>3 DEF Ready
  <1>5. clean' => TokensOK' /\ ItemsOK'  BY <1>1, Zenon DEF BufferOK
  <1> QED  BY <1>1, <1>2, <1>3, <1>4, <1>5, Zenon DEF BufferOK

\* The steps between the two semaphores leave the tokens where they are.
LEMMA MiddleTokens ==
  ASSUME BufferTypes, NEW t \in Role, thread[t].pc \in {2, 3, 4}, Advances(t),
         sem'["vacios"] = sem["vacios"], sem'["llenos"] = sem["llenos"], TokensOK
  PROVE  TokensOK'
  <1>1. \A u \in Role : thread'[u].i = thread[u].i
    BY DEF Advances
  <1>2. Holds(t) = 1 /\ Holds(t)' = 1  BY DEF Advances, Holds
  <1>3. \A u \in Role : Holds(u)' = Holds(u)  BY <1>2 DEF Advances, Holds
  <1> QED  BY <1>1, <1>3 DEF TokensOK, Role

\* The steps other than the access to the buffer leave the items where they are.
LEMMA ItemsKept ==
  ASSUME BufferTypes, NEW t \in Role, thread[t].pc \in 1..5, thread[t].pc # 3, Advances(t),
         slots' = slots, results' = results, ItemsOK
  PROVE  ItemsOK'
  <1>1. \A u \in Role : thread[u].i \in Nat /\ thread[u].pc \in 0..5  BY DEF BufferTypes
  <1>2. Written' = Written
    <2>1. CASE t = "producer"  BY <1>1, <2>1 DEF Advances, Written
    <2>2. CASE t # "producer"  BY <2>2 DEF Advances, Written, Role
    <2> QED  BY <2>1, <2>2
  <1>3. Taken' = Taken
    <2>1. CASE t = "consumer"  BY <1>1, <2>1 DEF Advances, Taken
    <2>2. CASE t # "consumer"  BY <2>2 DEF Advances, Taken, Role
    <2> QED  BY <2>1, <2>2
  <1> QED  BY <1>2, <1>3, Zenon DEF ItemsOK

\* sem_wait() of a thread takes a token, sem_post() passes one on.
LEMMA TokenMoves ==
  ASSUME BufferTypes, NEW t \in Role, thread[t].pc \in {1, 5}, Advances(t),
         NEW s, s = ThreadLoop(t)[thread[t].pc],
         sem' = [sem EXCEPT ![s] = @ + (IF thread[t].pc = 1 THEN -1 ELSE 1)],
         thread[t].pc = 1 => sem[s] > 0, TokensOK
  PROVE  TokensOK'
  <1>0. PICK n, j : n = thread["producer"].i /\ j = thread["consumer"].i  OBVIOUS
  <1>1. n \in Nat /\ j \in Nat /\ BUFFER_SIZE \in Nat  BY <1>0, BufferNats DEF BufferTypes, Role
  <1>2. PICK v, l : v = sem["vacios"] /\ l = sem["llenos"]  OBVIOUS
  <1>3. v \in Int /\ l \in Int /\ s \in Sem  BY <1>2, LoopSteps DEF BufferTypes, Sem
  <1>4. CASE t = "producer" /\ thread[t].pc = 1
    <2>1. s = "vacios" /\ v > 0 /\ sem'["vacios"] = v - 1 /\ sem'["llenos"] = l
      BY <1>2, <1>3, <1>4, LoopSteps DEF BufferTypes, Sem
    <2>2. /\ Holds("producer") = 0 /\ Holds("producer")' = 1 /\ Holds("consumer")' = Holds("consumer")
          /\ thread'["producer"].i = n /\ thread'["consumer"].i = j
      BY <1>0, <1>4 DEF Advances, Holds, Role
    <2>3. Holds("consumer") \in {0, 1}  BY DEF Holds
    <2> QED  BY <1>0, <1>1, <1>2, <1>3, <2>1, <2>2, <2>3 DEF TokensOK
  <1>5. CASE t = "consumer" /\ thread[t].pc = 1
    <2>1. s = "llenos" /\ l > 0 /\ sem'["vacios"] = v /\ sem'["llenos"] = l - 1
      BY <1>2, <1>3, <1>5, LoopSteps DEF BufferTypes, Sem
    <2>2. /\ Holds("consumer") = 0 /\ Holds("consumer")' = 1 /\ Holds("producer")' = Holds("producer")
          /\ thread'["producer"].i = n /\ thread'["consumer"].i = j
      BY <1>0, <1>5 DEF Advances, Holds, Role
    <2>3. Holds("producer") \in {0, 1}  BY DEF Holds
    <2> QED  BY <1>0, <1>1, <1>2, <1>3, <2>1, <2>2, <2>3 DEF TokensOK
  <1>6. CASE t = "producer" /\ thread[t].pc = 5
    <2>1. s = "llenos" /\ sem'["vacios"] = v /\ sem'["llenos"] = l + 1
      BY <1>2, <1>3, <1>6, LoopSteps DEF BufferTypes, Sem
    <2>2. /\ Holds("producer") = 1 /\ Holds("producer")' = 0 /\ Holds("consumer")' = Holds("consumer")
          /\ thread'["producer"].i = n + 1 /\ thread'["consumer"].i = j
      BY <1>0, <1>6 DEF Advances, Holds, Role
    <2>3. Holds("consumer") \in {0, 1}  BY DEF Holds
    <2> QED  BY <1>0, <1>1, <1>2, <1>3, <2>1, <2>2, <2>3 DEF TokensOK
  <1>7. CASE t = "consumer" /\ thread[t].pc = 5
    <2>1. s = "vacios" /\ sem'["vacios"] = v + 1 /\ sem'["llenos"] = l
      BY <1>2, <1>3, <1>7, LoopSteps DEF BufferTypes, Sem
    <2>2. /\ Holds("consumer") = 1 /\ Holds("consumer")' = 0 /\ Holds("producer")' = Holds("producer")
          /\ thread'["producer"].i = n /\ thread'["consumer"].i = j + 1
      BY <1>0, <1>7 DEF Advances, Holds, Role
    <2>3. Holds("producer") \in {0, 1}  BY DEF Holds
    <2> QED  BY <1>0, <1>1, <1>2, <1>3, <2>1, <2>2, <2>3 DEF TokensOK
  <1> QED  BY <1>4, <1>5, <1>6, <1>7 DEF Role

\* The producer's item replaces one that has been read.
LEMMA StoreItem ==
  ASSUME BufferTypes, thread["producer"].pc = 3, Advances("producer"), ItemsOK, results' = results,
         slots' = [slots EXCEPT ![Slot("producer")] = thread["producer"].i]
  PROVE  ItemsOK'
  <1>0. PICK n : n = thread["producer"].i  OBVIOUS
  <1>1. n \in Nat \ {0} /\ n - 1 \in Nat /\ BUFFER_SIZE \in Nat \ {0}
    BY <1>0, BufferNats DEF BufferTypes, Role
  <1>2. Written = n - 1 /\ Written' = n  BY <1>0, <1>1 DEF Written, Advances
  <1>3. Taken' = Taken  BY DEF Taken, Advances, Role
  <1>4. \A x \in Int : x % BUFFER_SIZE \in 0..BUFFER_SIZE-1  BY <1>1
  <1>5. PICK d : d = (n - 1) % BUFFER_SIZE  OBVIOUS
  <1>6. slots' = [slots EXCEPT ![d] = n] /\ d \in 0..BUFFER_SIZE-1
    BY <1>0, <1>1, <1>4, <1>5 DEF Slot
  <1>7. ASSUME NEW k \in 1..n, k > n - BUFFER_SIZE
        PROVE  slots'[(k - 1) % BUFFER_SIZE] = k
    <2>1. PICK m : m = (k - 1) % BUFFER_SIZE  OBVIOUS
    <2>2. m \in 0..BUFFER_SIZE-1
      <3>1. k - 1 \in Int  OBVIOUS
      <3> QED  BY <1>4, <2>1, <3>1, Zenon
    <2>3. CASE k = n
      <3>1. m = d  BY <1>5, <2>1, <2>3, Zenon
      <3> QED  BY <1>6, <2>1, <2>2, <2>3, <3>1 DEF BufferTypes
    <2>4. CASE k # n
      <3>1. /\ k - 1 \in Nat /\ n - 1 \in Nat /\ k - 1 < n - 1 /\ (n - 1) - (k - 1) < BUFFER_SIZE
            /\ k \in 1..n-1 /\ k > (n - 1) - BUFFER_SIZE
        BY <1>1, <1>7, <2>4
      <3>2. m # d  BY <1>1, <1>5, <2>1, <3>1, SlotsApart, Zenon
      <3>3. slots[m] = k  BY <1>2, <2>1, <3>1, Zenon DEF ItemsOK
      <3> QED  BY <1>6, <2>1, <2>2, <3>2, <3>3 DEF BufferTypes
    <2> QED  BY <2>3, <2>4
  <1> QED  BY <1>2, <1>3, <1>7, Zenon DEF ItemsOK

\* The consumer's slot holds the next item.
LEMMA TakeItem ==
  ASSUME BufferTypes, thread["consumer"].pc = 3, Advances("consumer"), ItemsOK, TokensOK,
         slots' = slots, results' = Append(results, slots[Slot("consumer")])
  PROVE  ItemsOK'
  <1>0. PICK n, j : n = thread["producer"].i /\ j = thread["consumer"].i  OBVIOUS
  <1>1. n \in Nat \ {0} /\ j \in Nat \ {0} /\ BUFFER_SIZE \in Nat \ {0}
    BY <1>0, BufferNats DEF BufferTypes, Role
  <1>2. Taken = j - 1 /\ Taken' = j  BY <1>0, <1>1 DEF Taken, Advances
  <1>3. Written' = Written  BY DEF Written, Advances, Role
  <1>4. Written \in Int /\ j \in 1..Written /\ j > Written - BUFFER_SIZE
    <2>1. Holds("consumer") = 1  BY DEF Holds
    <2>2. /\ Holds("producer") \in {0, 1} /\ Written \in {n - 1, n}
          /\ (Written = n => Holds("producer") = 1)
      BY <1>0, <1>1 DEF Holds, Written, BufferTypes, Role
    <2>3. PICK h, w : h = Holds("producer") /\ w = Written  OBVIOUS
    <2>4. BUFFER_SIZE - (n - 1) - h + (j - 1) >= 0 /\ (n - 1) - (j - 1) - 1 >= 0
      BY <1>0, <2>1, <2>3 DEF TokensOK
    <2>5. h \in {0, 1} /\ w \in {n - 1, n} /\ (w = n => h = 1)  BY <2>2, <2>3, Zenon
    <2>6. w \in Int /\ j \in 1..w /\ j > w - BUFFER_SIZE  BY <1>1, <2>4, <2>5
    <2> QED  BY <2>3, <2>6, Zenon
  <1>5. slots[Slot("consumer")] = j  BY <1>0, <1>4, Zenon DEF ItemsOK, Slot
  <1>6. results' = Append(results, j) /\ results \in Seq(Nat) /\ Len(results) = j - 1
    BY <1>2, <1>5, Zenon DEF ItemsOK, BufferTypes
  <1>7. Len(results') = j  BY <1>1, <1>6
  <1>8. \A k \in 1..j : results'[k] = k
    <2> TAKE k \in 1..j
    <2>1. CASE k = j  BY <1>1, <1>6, <2>1
    <2>2. CASE k # j
      <3>1. k \in 1..j-1  BY <1>1, <2>2
      <3>2. results[k] = k  BY <1>2, <3>1 DEF ItemsOK
      <3> QED  BY <1>1, <1>6, <3>1, <3>2
    <2> QED  BY <2>1, <2>2, Zenon
  <1> QED  BY <1>2, <1>3, <1>7, <1>8, Zenon DEF ItemsOK

\* A step of a thread keeps the types.
LEMMA TypesKept ==
  ASSUME BufferTypes, NEW t \in Role, Advances(t), UNCHANGED <<prog, posts, clean>>,
         sem' \in [Sem -> Int], slots' \in [0..BUFFER_SIZE-1 -> Nat], results' \in Seq(Nat)
  PROVE  BufferTypes'
  <1>1. prog' = prog /\ posts' = posts /\ clean' = clean  OBVIOUS
  <1> QED  BY <1>1, Zenon DEF BufferTypes, Advances

\* sem_post() and sem_wait() leave the semaphores integers.
LEMMA SemType ==
  ASSUME sem \in [Sem -> Int], NEW s \in Sem, NEW d \in Int, sem' = [sem EXCEPT ![s] = sem[s] + d]
  PROVE  sem' \in [Sem -> Int]
  OBVIOUS

\* Every step of producer() and consumer() keeps the invariant, the ones on a destroyed
\* mutex included.
LEMMA BufferThreadStep ==
  ASSUME BufferOK, NEW t \in Role, Wait(t) \/ LockBuffer(t) \/ Access(t) \/ Unlock(t) \/ Post(t)
  PROVE  BufferOK'
  <1>0. BufferTypes /\ slots \in [0..BUFFER_SIZE-1 -> Nat] /\ results \in Seq(Nat)
    BY Zenon DEF BufferOK, BufferTypes
  <1>1. CASE Wait(t)
    <2>1. PICK s : s = ThreadLoop(t)[1]  OBVIOUS
    <2>2. /\ thread[t].pc = 1 /\ sem[s] > 0 /\ sem' = [sem EXCEPT ![s] = @ - 1] /\ Advance(t)
          /\ UNCHANGED <<prog, todo, posts, slots, results, clean>>
      BY <1>1, <2>1, Zenon DEF Wait, sem_wait
    <2>3. Advances(t)  BY <1>0, <2>2, AdvanceStep
    <2>4. s \in Sem  BY <2>1, LoopSteps DEF Sem
    <2>5. sem[s] - 1 = sem[s] + (-1)  BY <1>0, <2>4 DEF BufferTypes
    <2>6. BufferTypes'
      <3>1. sem' = [sem EXCEPT ![s] = sem[s] + (-1)]  BY <2>2, <2>5, Zenon
      <3>2. sem' \in [Sem -> Int]  BY <1>0, <2>4, <3>1, SemType DEF BufferTypes
      <3> QED  BY <1>0, <2>2, <2>3, <3>2, TypesKept, Zenon
    <2>7. sem' = [sem EXCEPT ![s] = @ + (IF thread[t].pc = 1 THEN -1 ELSE 1)]
      BY <2>2, <2>5, Zenon
    <2>8. thread[t].pc \in {1, 5} /\ thread[t].pc \in 1..5 /\ thread[t].pc # 3  BY <2>2
    <2>9. TokensOK => TokensOK'  BY <1>0, <2>1, <2>2, <2>3, <2>7, <2>8, TokenMoves, Zenon
    <2>10. ItemsOK => ItemsOK'  BY <1>0, <2>2, <2>3, <2>8, ItemsKept, Zenon
    <2> QED  BY <2>2, <2>3, <2>6, <2>8, <2>9, <2>10, RunsOn, Zenon
  <1>2. CASE Post(t)
    <2>1. PICK s \in {"vacios", "llenos"} :
            /\ thread[t].pc > 1 /\ AtStep(t, s) /\ sem' = [sem EXCEPT ![s] = @ + 1] /\ Advance(t)
            /\ UNCHANGED <<prog, todo, posts, slots, results, clean>>
      BY <1>2, Zenon DEF Post, sem_post
    <2>2. thread[t].pc # 1  BY <2>1
    <2>3. thread[t].pc = 5 /\ s = ThreadLoop(t)[5]  BY <1>0, <2>1, <2>2, AtSteps, Zenon
    <2>4. thread[t].pc \in {1, 5} /\ thread[t].pc \in 1..5 /\ thread[t].pc # 3  BY <2>3
    <2>5. Advances(t)  BY <1>0, <2>1, <2>4, AdvanceStep, Zenon
    <2>6. sem' \in [Sem -> Int]  BY <1>0, <2>1, SemType DEF BufferTypes, Sem
    <2>7. BufferTypes'  BY <1>0, <2>1, <2>5, <2>6, TypesKept, Zenon
    <2>8. sem' = [sem EXCEPT ![s] = @ + (IF thread[t].pc = 1 THEN -1 ELSE 1)]  BY <2>1, <2>3
    <2>9. TokensOK => TokensOK'  BY <1>0, <2>2, <2>3, <2>4, <2>5, <2>8, TokenMoves, Zenon
    <2>10. ItemsOK => ItemsOK'  BY <1>0, <2>1, <2>4, <2>5, ItemsKept, Zenon
    <2> QED  BY <2>1, <2>4, <2>5, <2>7, <2>9, <2>10, RunsOn, Zenon
  <1>3. CASE LockBuffer(t) \/ Unlock(t)
    <2>1. PICK s \in {"lock", "unlock"} :
            /\ AtStep(t, s) /\ Advance(t) /\ UNCHANGED <<prog, todo, posts, slots, results, clean>>
            /\ sem' = sem \/ \E d \in {-1, 1} : sem' = [sem EXCEPT !["mutex"] = @ + d]
      <3>1. sem["mutex"] \in Int  BY <1>0 DEF BufferTypes, Sem
      <3>2. sem["mutex"] - 1 = sem["mutex"] + (-1)  BY <3>1
      <3>3. CASE LockBuffer(t)
        <4>1. sem' = sem \/ sem' = [sem EXCEPT !["mutex"] = sem["mutex"] + (-1)]
          BY <3>2, <3>3, Zenon DEF LockBuffer, sem_wait
        <4>2. /\ AtStep(t, "lock") /\ Advance(t)
              /\ UNCHANGED <<prog, todo, posts, slots, results, clean>>
          BY <3>3, Zenon DEF LockBuffer
        <4> QED  BY <4>1, <4>2, Zenon
      <3>4. CASE Unlock(t)
        <4>1. sem' = sem \/ sem' = [sem EXCEPT !["mutex"] = sem["mutex"] + 1]
          BY <3>4, Zenon DEF Unlock, sem_post
        <4>2. /\ AtStep(t, "unlock") /\ Advance(t)
              /\ UNCHANGED <<prog, todo, posts, slots, results, clean>>
          BY <3>4, Zenon DEF Unlock
        <4> QED  BY <4>1, <4>2, Zenon
      <3> QED  BY <1>3, <3>3, <3>4
    <2>2. /\ thread[t].pc \in {2, 3, 4} /\ thread[t].pc \in 1..5 /\ thread[t].pc # 3
      BY <1>0, <2>1, AtSteps
    <2>3. Advances(t)  BY <1>0, <2>1, <2>2, AdvanceStep, Zenon
    <2>4. /\ sem' \in [Sem -> Int]
          /\ sem'["vacios"] = sem["vacios"] /\ sem'["llenos"] = sem["llenos"]
      BY <1>0, <2>1 DEF BufferTypes, Sem
    <2>5. BufferTypes'  BY <1>0, <2>1, <2>3, <2>4, TypesKept, Zenon
    <2>6. TokensOK => TokensOK'  BY <1>0, <2>2, <2>3, <2>4, MiddleTokens, Zenon
    <2>7. ItemsOK => ItemsOK'  BY <1>0, <2>1, <2>2, <2>3, ItemsKept, Zenon
    <2> QED  BY <2>1, <2>2, <2>3, <2>5, <2>6, <2>7, RunsOn, Zenon
  <1>4. CASE Access(t)
    <2>1. /\ AtStep(t, "access") /\ Advance(t) /\ UNCHANGED <<prog, sem, todo, posts, clean>>
          /\ t = "producer" => /\ slots' = [slots EXCEPT ![Slot("producer")] = thread["producer"].i]
                               /\ results' = results
          /\ t # "producer" => results' = Append(results, slots[Slot(t)]) /\ slots' = slots
      BY <1>4, Zenon DEF Access
    <2>2. thread[t].pc = 3  BY <1>0, <2>1, AtSteps, Zenon
    <2>3. thread[t].pc \in {2, 3, 4} /\ thread[t].pc \in 1..5  BY <2>2
    <2>4. Advances(t)  BY <1>0, <2>1, <2>3, AdvanceStep, Zenon
    <2>5. /\ sem' \in [Sem -> Int]
          /\ sem'["vacios"] = sem["vacios"] /\ sem'["llenos"] = sem["llenos"]
      BY <1>0, <2>1, Zenon DEF BufferTypes
    <2>6. TokensOK => TokensOK'  BY <1>0, <2>3, <2>4, <2>5, MiddleTokens, Zenon
    <2>7. Slot(t) \in 0..BUFFER_SIZE-1 /\ thread[t].i \in Nat
      BY <1>0, BufferNats DEF Slot, BufferTypes
    <2>8. slots' \in [0..BUFFER_SIZE-1 -> Nat] /\ results' \in Seq(Nat)
      <3>1. CASE t = "producer"
        <4>1. Slot("producer") \in 0..BUFFER_SIZE-1 /\ thread["producer"].i \in Nat
          BY <2>7, <3>1, Zenon
        <4>2. slots' = [slots EXCEPT ![Slot("producer")] = thread["producer"].i]
          BY <2>1, <3>1, Zenon
        <4>3. slots' \in [0..BUFFER_SIZE-1 -> Nat]  BY <1>0, <4>1, <4>2
        <4> QED  BY <1>0, <2>1, <3>1, <4>3, Zenon
      <3>2. CASE t # "producer"
        <4>1. slots[Slot(t)] \in Nat  BY <1>0, <2>7
        <4>2. \A v \in Nat : Append(results, v) \in Seq(Nat)  BY <1>0
        <4>3. results' \in Seq(Nat)  BY <2>1, <3>2, <4>1, <4>2, Zenon
        <4> QED  BY <1>0, <2>1, <3>2, <4>3, Zenon
      <3> QED  BY <3>1, <3>2
    <2>9. BufferTypes'  BY <1>0, <2>1, <2>4, <2>5, <2>8, TypesKept, Zenon
    <2>10. TokensOK /\ ItemsOK => ItemsOK'
      <3>1. CASE t = "producer"  BY <1>0, <2>1, <2>2, <2>4, <3>1, StoreItem, Zenon
      <3>2. CASE t = "consumer"  BY <1>0, <2>1, <2>2, <2>4, <3>2, TakeItem
      <3> QED  BY <3>1, <3>2 DEF Role
    <2> QED  BY <2>1, <2>3, <2>4, <2>6, <2>9, <2>10, RunsOn, Zenon
  <1> QED  BY <1>1, <1>2, <1>3, <1>4, Zenon

\* main() before the threads, and with them.
LEMMA NotCreated ==
  ASSUME BufferTypes', thread' = NoThreads, slots' = Fresh, results' = <<>>,
         todo' \in {"start", "open_mutex", "open_vacios", "post_vacios", "wait_llenos", "create"},
         clean' /\ prog' = "prodcons" => Ready'
  PROVE  BufferOK'
  <1>1. thread'["producer"].pc = 0 /\ thread'["consumer"].pc = 0  BY DEF NoThreads, Role
  <1>2. ~Created' /\ thread'["consumer"].pc = 0  BY <1>1 DEF Created
  <1>3. Fresh' = Fresh /\ NoThreads' = NoThreads  BY DEF Fresh, NoThreads
  <1>4. todo' \notin {"destroy", "join", "unlink_mutex", "unlink_llenos", "unlink_vacios", "end"}
    OBVIOUS
  <1> QED  BY <1>2, <1>3, <1>4, Zenon DEF BufferOK

\* main() keeps it while the threads are there: joining, unlinking, destroying.
LEMMA StaysCreated ==
  ASSUME BufferOK, UNCHANGED <<prog, sem, posts, thread, slots, results, clean>>,
         todo \in {"destroy", "join", "unlink_mutex", "unlink_llenos", "unlink_vacios", "end"},
         todo' \in {"destroy", "join", "unlink_mutex", "unlink_llenos", "unlink_vacios", "end"}
  PROVE  BufferOK'
  <1>1. Created /\ thread["consumer"].pc # 0  BY Zenon DEF BufferOK
  <1>2. Created' /\ thread'["consumer"].pc # 0  BY <1>1, Zenon DEF Created
  <1>3. BufferTypes'  BY Zenon DEF BufferOK, BufferTypes
  <1>4. Ready'  BY DEF Ready
  <1>5. TokensOK => TokensOK'  BY Zenon DEF TokensOK, Holds
  <1>6. ItemsOK => ItemsOK'  BY Zenon DEF ItemsOK, Written, Taken
  <1>7. clean' => TokensOK' /\ ItemsOK'  BY <1>1, <1>5, <1>6, Zenon DEF BufferOK
  <1> QED  BY <1>2, <1>3, <1>4, <1>7, Zenon DEF BufferOK

\* The threads start with an empty buffer.
LEMMA CreateThreads ==
  ASSUME BufferTypes, UNCHANGED <<prog, posts, clean, slots, results>>, create, results = <<>>,
         sem' \in [Sem -> Int], clean => sem'["vacios"] = BUFFER_SIZE /\ sem'["llenos"] = 0,
         todo' \in {"destroy", "join"}
  PROVE  BufferOK'
  <1>1. \A t \in Role : thread'[t] = [pc |-> 1, i |-> 1]  BY DEF create
  <1>2. \A t \in Role : thread'[t].pc = 1 /\ thread'[t].i = 1  BY <1>1
  <1>3. Created' /\ thread'["consumer"].pc # 0  BY <1>2 DEF Created, Role
  <1>4. thread' \in [Role -> [pc : 0..5, i : Nat \ {0}]]  BY DEF create
  <1>5. BufferTypes'  BY <1>4, Zenon DEF BufferTypes
  <1>6. Holds("producer")' = 0 /\ Holds("consumer")' = 0  BY <1>2 DEF Holds, Role
  <1>7. Written' = 0 /\ Taken' = 0  BY <1>2 DEF Written, Taken, Role
  <1>8. ItemsOK'  BY <1>7 DEF ItemsOK
  <1>9. ASSUME clean PROVE TokensOK'
    <2>1. sem'["vacios"] = BUFFER_SIZE /\ sem'["llenos"] = 0  BY <1>9, Zenon
    <2>2. thread'["producer"].i = 1 /\ thread'["consumer"].i = 1  BY <1>2 DEF Role
    <2> QED  BY <1>6, <2>1, <2>2, BufferNats DEF TokensOK
  <1>10. Ready'  BY DEF Ready
  <1>11. clean' => TokensOK' /\ ItemsOK'  BY <1>8, <1>9, Zenon
  <1>12. todo' \in {"destroy", "join", "unlink_mutex", "unlink_llenos", "unlink_vacios", "end"}
    OBVIOUS
  <1> QED  BY <1>3, <1>5, <1>10, <1>11, <1>12, Zenon DEF BufferOK

\* sem_open() of prodcons.c.
LEMMA OpenStep ==
  ASSUME sem \in [Sem -> Int], NEW s \in Sem, sem_open(s)
  PROVE  /\ sem' \in [Sem -> Int] /\ named' = named \cup {s} /\ thread' = thread
         /\ s \notin named => sem'[s] = 1
         /\ \A u \in Sem : u # s => sem'[u] = sem[u]
  <1>1. CASE s \in named
    <2>1. sem' = sem  BY <1>1, Zenon DEF sem_open
    <2> QED  BY <1>1, <2>1, Zenon DEF sem_open
  <1>2. CASE s \notin named
    <2>1. sem' = [sem EXCEPT ![s] = 1]  BY <1>2, Zenon DEF sem_open
    <2>2. sem' \in [Sem -> Int] /\ sem'[s] = 1 /\ \A u \in Sem : u # s => sem'[u] = sem[u]
      BY <2>1
    <2> QED  BY <2>2, Zenon DEF sem_open
  <1> QED  BY <1>1, <1>2

\* prodcons.c brings the semaphores to their values, if it finds none.
LEMMA SetUpStep ==
  ASSUME BufferOK, Main,
         todo \in {"open_mutex", "open_vacios", "post_vacios", "wait_llenos"}
  PROVE  BufferOK'
  <1>0. /\ prog = "prodcons" /\ prog' = prog /\ clean' = clean /\ slots' = slots /\ results' = results
        /\ \/ Then("open_mutex", "open_vacios") /\ sem_open("mutex") /\ posts' = posts
           \/ Then("open_vacios", "post_vacios") /\ sem_open("vacios") /\ posts' = posts
           \/ /\ Then("post_vacios", "post_vacios") /\ posts < BUFFER_SIZE - 1
              /\ sem_post("vacios") /\ posts' = posts + 1 /\ named' = named /\ thread' = thread
           \/ /\ Then("post_vacios", "wait_llenos") /\ posts >= BUFFER_SIZE - 1
              /\ sem_open("llenos") /\ posts' = posts
           \/ /\ Then("wait_llenos", "create") /\ sem_wait("llenos") /\ posts' = posts
              /\ named' = named /\ thread' = thread
    <2>1. todo \notin {"create", "join", "unlink_mutex", "unlink_llenos", "unlink_vacios"}  OBVIOUS
    <2> QED  BY <2>1, Zenon DEF Main, Then
  <1>1. /\ ~Created /\ BufferTypes /\ thread = NoThreads /\ slots = Fresh /\ results = <<>>
        /\ clean => Ready
    <2>1. todo \notin {"destroy", "join", "unlink_mutex", "unlink_llenos", "unlink_vacios", "end"}
      OBVIOUS
    <2> QED  BY <1>0, <2>1, Zenon DEF BufferOK
  <1>2. /\ sem \in [Sem -> Int] /\ posts \in Nat /\ sem["vacios"] \in Int /\ sem["llenos"] \in Int
        /\ "mutex" \in Sem /\ "vacios" \in Sem /\ "llenos" \in Sem /\ BUFFER_SIZE \in Nat \ {0}
    BY <1>1, BufferNats DEF BufferTypes, Sem
  <1>3. ASSUME thread' = thread, sem' \in [Sem -> Int], posts' \in Nat,
               todo' \in {"open_vacios", "post_vacios", "wait_llenos", "create"},
               clean => Ready'
        PROVE  BufferOK'
    <2>1. BufferTypes'  BY <1>0, <1>1, <1>3, Zenon DEF BufferTypes
    <2>2. thread' = NoThreads /\ slots' = Fresh /\ results' = <<>>  BY <1>0, <1>1, <1>3, Zenon
    <2>3. todo' \in {"start", "open_mutex", "open_vacios", "post_vacios", "wait_llenos", "create"}
      BY <1>3
    <2>4. clean' /\ prog' = "prodcons" => Ready'  BY <1>0, <1>3, Zenon
    <2> QED  BY <2>1, <2>2, <2>3, <2>4, NotCreated, Zenon
  <1>4. CASE Then("open_mutex", "open_vacios") /\ sem_open("mutex") /\ posts' = posts
    <2>1. todo = "open_mutex" /\ todo' = "open_vacios"  BY <1>4, Zenon DEF Then
    <2>2. sem' \in [Sem -> Int] /\ named' = named \cup {"mutex"} /\ thread' = thread
      BY <1>2, <1>4, OpenStep, Zenon
    <2>3. ASSUME Ready PROVE Ready'
      <3>1. named = {} /\ posts = 0  BY <2>1, <2>3, Zenon DEF Ready
      <3>2. named' \subseteq {"mutex"} /\ posts' = 0  BY <1>4, <2>2, <3>1
      <3> QED  BY <2>1, <3>2 DEF Ready
    <2> QED  BY <1>1, <1>2, <1>3, <1>4, <2>1, <2>2, <2>3
  <1>5. CASE Then("open_vacios", "post_vacios") /\ sem_open("vacios") /\ posts' = posts
    <2>1. todo = "open_vacios" /\ todo' = "post_vacios"  BY <1>5, Zenon DEF Then
    <2>2. /\ sem' \in [Sem -> Int] /\ named' = named \cup {"vacios"} /\ thread' = thread
          /\ "vacios" \notin named => sem'["vacios"] = 1
      BY <1>2, <1>5, OpenStep, Zenon
    <2>3. ASSUME Ready PROVE Ready'
      <3>1. named \subseteq {"mutex"} /\ posts = 0  BY <2>1, <2>3, Zenon DEF Ready
      <3>2. named' \subseteq {"mutex", "vacios"} /\ posts' = 0 /\ "vacios" \notin named
        BY <1>5, <2>2, <3>1
      <3>3. posts' <= BUFFER_SIZE - 1 /\ sem'["vacios"] = posts' + 1  BY <1>2, <2>2, <3>2
      <3> QED  BY <2>1, <3>2, <3>3 DEF Ready
    <2> QED  BY <1>1, <1>2, <1>3, <1>5, <2>1, <2>2, <2>3
  <1>6. CASE /\ Then("post_vacios", "post_vacios") /\ posts < BUFFER_SIZE - 1
             /\ sem_post("vacios") /\ posts' = posts + 1 /\ named' = named /\ thread' = thread
    <2>1. todo = "post_vacios" /\ todo' = "post_vacios"  BY <1>6, Zenon DEF Then
    <2>2. sem' = [sem EXCEPT !["vacios"] = sem["vacios"] + 1]  BY <1>6, Zenon DEF sem_post
    <2>3. sem' \in [Sem -> Int] /\ sem'["vacios"] = sem["vacios"] + 1  BY <1>2, <2>2
    <2>4. ASSUME Ready PROVE Ready'
      <3>1. named \subseteq {"mutex", "vacios"} /\ sem["vacios"] = posts + 1
        BY <2>1, <2>4, Zenon DEF Ready
      <3>2. posts' <= BUFFER_SIZE - 1 /\ sem'["vacios"] = posts' + 1  BY <1>2, <1>6, <2>3, <3>1
      <3> QED  BY <1>6, <2>1, <3>1, <3>2 DEF Ready
    <2>5. posts' \in Nat  BY <1>2, <1>6
    <2> QED  BY <1>1, <1>3, <1>6, <2>1, <2>3, <2>4, <2>5
  <1>7. CASE /\ Then("post_vacios", "wait_llenos") /\ posts >= BUFFER_SIZE - 1
             /\ sem_open("llenos") /\ posts' = posts
    <2>1. todo = "post_vacios" /\ todo' = "wait_llenos"  BY <1>7, Zenon DEF Then
    <2>2. /\ sem' \in [Sem -> Int] /\ thread' = thread
          /\ "llenos" \notin named => sem'["llenos"] = 1
          /\ \A u \in Sem : u # "llenos" => sem'[u] = sem[u]
      BY <1>2, <1>7, OpenStep, Zenon
    <2>3. ASSUME Ready PROVE Ready'
      <3>1. /\ named \subseteq {"mutex", "vacios"} /\ posts <= BUFFER_SIZE - 1
            /\ sem["vacios"] = posts + 1
        BY <2>1, <2>3, Zenon DEF Ready
      <3>2. sem["vacios"] = BUFFER_SIZE /\ "llenos" \notin named  BY <1>2, <1>7, <3>1
      <3>3. sem'["vacios"] = BUFFER_SIZE /\ sem'["llenos"] = 1  BY <1>2, <2>2, <3>2
      <3> QED  BY <2>1, <3>3 DEF Ready
    <2> QED  BY <1>1, <1>2, <1>3, <1>7, <2>1, <2>2, <2>3
  <1>8. CASE /\ Then("wait_llenos", "create") /\ sem_wait("llenos") /\ posts' = posts
             /\ named' = named /\ thread' = thread
    <2>1. todo = "wait_llenos" /\ todo' = "create"  BY <1>8, Zenon DEF Then
    <2>2. sem' = [sem EXCEPT !["llenos"] = sem["llenos"] - 1]  BY <1>8, Zenon DEF sem_wait
    <2>3. sem' \in [Sem -> Int] /\ sem'["vacios"] = sem["vacios"] /\ sem'["llenos"] = sem["llenos"] - 1
      BY <1>2, <2>2
    <2>4. ASSUME Ready PROVE Ready'
      <3>1. sem["vacios"] = BUFFER_SIZE /\ sem["llenos"] = 1  BY <2>1, <2>4 DEF Ready
      <3>2. sem'["vacios"] = BUFFER_SIZE /\ sem'["llenos"] = 0  BY <2>3, <3>1
      <3> QED  BY <2>1, <3>2 DEF Ready
    <2> QED  BY <1>1, <1>2, <1>3, <1>8, <2>1, <2>3, <2>4
  <1> QED  BY <1>0, <1>4, <1>5, <1>6, <1>7, <1>8, Zenon

\* The other steps of the two main() functions, and a program that is killed.
LEMMA BufferMainStep ==
  ASSUME BufferOK, Start \/ Destroy \/ Begin \/ Main \/ Abort
  PROVE  BufferOK'
  <1>0. BufferTypes  BY Zenon DEF BufferOK
  <1>1. ASSUME todo \in {"start", "create"}
        PROVE  thread = NoThreads /\ slots = Fresh /\ results = <<>>
    <2>1. todo \notin {"destroy", "join", "unlink_mutex", "unlink_llenos", "unlink_vacios", "end"}
      BY <1>1
    <2> QED  BY <2>1, Zenon DEF BufferOK
  <1>2. CASE Start
    <2>1. /\ todo = "start" /\ todo' = "destroy" /\ create
          /\ UNCHANGED <<prog, posts, clean, slots, results>>
      BY <1>2, Zenon DEF Start, Then
    <2>2. sem' = [[s \in Sem |-> 0] EXCEPT !["mutex"] = 1, !["vacios"] = BUFFER_SIZE]
      BY <1>2, Zenon DEF Start
    <2>3. sem' \in [Sem -> Int] /\ sem'["vacios"] = BUFFER_SIZE /\ sem'["llenos"] = 0
      BY <2>2, BufferNats DEF Sem
    <2>4. todo \in {"start", "create"} /\ todo' \in {"destroy", "join"}  BY <2>1
    <2> QED  BY <1>0, <1>1, <2>1, <2>3, <2>4, CreateThreads, Zenon
  <1>3. CASE Destroy
    <2>1. /\ todo = "destroy" /\ todo' = "end"
          /\ UNCHANGED <<prog, sem, posts, thread, slots, results, clean>>
      BY <1>3, Zenon DEF Destroy, Then
    <2> QED  BY <2>1, StaysCreated
  <1>4. CASE Begin
    <2>1. /\ todo = "start" /\ todo' = "open_mutex" /\ posts' = 0 /\ clean' \in BOOLEAN
          /\ clean' => named = {}
          /\ UNCHANGED <<prog, sem, named, thread, slots, results>>
      BY <1>4, Zenon DEF Begin, Then
    <2>2. posts' \in Nat  BY <2>1
    <2>3. BufferTypes'  BY <1>0, <2>1, <2>2, Zenon DEF BufferTypes
    <2>4. clean' => Ready'  BY <2>1 DEF Ready
    <2>5. /\ todo \in {"start", "create"}
          /\ todo' \in {"start", "open_mutex", "open_vacios", "post_vacios", "wait_llenos", "create"}
      BY <2>1
    <2> QED  BY <1>1, <2>1, <2>3, <2>4, <2>5, NotCreated, Zenon
  <1>5. CASE Abort
    <2>1. /\ todo' = "start" /\ thread' = NoThreads /\ slots' = Fresh /\ results' = <<>>
          /\ UNCHANGED <<prog, sem, posts, clean>>
      BY <1>5, Zenon DEF Abort
    <2>2. /\ NoThreads \in [Role -> [pc : 0..5, i : Nat \ {0}]]
          /\ Fresh \in [0..BUFFER_SIZE-1 -> Nat] /\ <<>> \in Seq(Nat)
      BY DEF NoThreads, Fresh
    <2>3. BufferTypes'  BY <1>0, <2>1, <2>2, Zenon DEF BufferTypes
    <2>4. Ready'  BY <2>1 DEF Ready
    <2>5. todo' \in {"start", "open_mutex", "open_vacios", "post_vacios", "wait_llenos", "create"}
      BY <2>1
    <2> QED  BY <2>1, <2>3, <2>4, <2>5, NotCreated, Zenon
  <1>6. CASE Main
    <2>1. CASE todo \in {"open_mutex", "open_vacios", "post_vacios", "wait_llenos"}
      BY <1>6, <2>1, SetUpStep, Zenon
    <2>2. CASE todo = "create"
      <3>1. /\ prog = "prodcons" /\ todo' = "join" /\ create /\ sem' = sem
            /\ UNCHANGED <<prog, posts, clean, slots, results>>
        <4>1. todo \notin {"open_mutex", "open_vacios", "post_vacios", "wait_llenos", "join",
                           "unlink_mutex", "unlink_llenos", "unlink_vacios"}
          BY <2>2
        <4> QED  BY <1>6, <4>1, Zenon DEF Main, Then
      <3>2. clean => sem'["vacios"] = BUFFER_SIZE /\ sem'["llenos"] = 0
        BY <2>2, <3>1 DEF BufferOK, Ready
      <3>3. sem' \in [Sem -> Int]  BY <1>0, <3>1, Zenon DEF BufferTypes
      <3>4. todo \in {"start", "create"} /\ todo' \in {"destroy", "join"}  BY <2>2, <3>1
      <3> QED  BY <1>0, <1>1, <3>1, <3>2, <3>3, <3>4, CreateThreads, Zenon
    <2>3. CASE todo \in {"join", "unlink_mutex", "unlink_llenos", "unlink_vacios"}
      <3>1. /\ todo' \in {"unlink_mutex", "unlink_llenos", "unlink_vacios", "end"}
            /\ UNCHANGED <<prog, sem, posts, thread, slots, results, clean>>
        <4>1. todo \notin {"open_mutex", "open_vacios", "post_vacios", "wait_llenos", "create"}
          BY <2>3
        <4> QED  BY <1>6, <4>1, Zenon DEF Main, Then, sem_unlink
      <3>2. /\ todo \in {"destroy", "join", "unlink_mutex", "unlink_llenos", "unlink_vacios", "end"}
            /\ todo' \in {"destroy", "join", "unlink_mutex", "unlink_llenos", "unlink_vacios", "end"}
        BY <2>3, <3>1
      <3> QED  BY <3>1, <3>2, StaysCreated, Zenon
    <2> QED  BY <1>6, <2>1, <2>2, <2>3, Zenon DEF Main, Then
  <1> QED  BY <1>2, <1>3, <1>4, <1>5, <1>6, Zenon

\* Every step keeps the invariant.
LEMMA BufferNextOK ==
  ASSUME BufferOK, [BufferNext]_bufferVars
  PROVE  BufferOK'
  <1>1. CASE UNCHANGED bufferVars
    <2>1. UNCHANGED <<prog, sem, named, todo, posts, thread, slots, results, clean>>
      BY <1>1, Zenon DEF bufferVars
    <2> QED
      BY <2>1, Zenon DEF BufferOK, BufferTypes, Created, Ready, TokensOK, ItemsOK, Holds, Written,
                        Taken, NoThreads, Fresh
  <1> QED  BY <1>1, BufferMainStep, BufferThreadStep, Zenon DEF BufferNext

\* ItemsInOrder: whatever the size of the buffer and the number of items, the consumer
\* of buf.c and of prodcons.c gets every item once and in order, no slot is lost, and
\* the two threads never wait for each other.
THEOREM ItemsInOrderHolds == BufferSpec => []ItemsInOrder
  <1>1. BufferInit => BufferOK
    <2> SUFFICES ASSUME BufferInit PROVE BufferOK  OBVIOUS
    <2>1. /\ thread = NoThreads /\ slots = Fresh /\ results = <<>> /\ todo = "start" /\ posts = 0
          /\ clean = TRUE /\ prog \in {"buf", "prodcons"} /\ sem = [s \in Sem |-> 0]
      BY Zenon DEF BufferInit
    <2>2. /\ NoThreads \in [Role -> [pc : 0..5, i : Nat \ {0}]]
          /\ Fresh \in [0..BUFFER_SIZE-1 -> Nat] /\ <<>> \in Seq(Nat)
      BY DEF NoThreads, Fresh
    <2>3. sem \in [Sem -> Int] /\ posts \in Nat /\ clean \in BOOLEAN  BY <2>1
    <2>4. BufferTypes  BY <2>1, <2>2, <2>3, Zenon DEF BufferTypes
    <2>5. thread["producer"].pc = 0 /\ thread["consumer"].pc = 0  BY <2>1 DEF NoThreads, Role
    <2>6. ~Created  BY <2>5 DEF Created
    <2>7. Ready  BY <2>1 DEF Ready
    <2>8. todo \notin {"destroy", "join", "unlink_mutex", "unlink_llenos", "unlink_vacios", "end"}
      BY <2>1
    <2> QED  BY <2>1, <2>4, <2>5, <2>6, <2>7, <2>8, Zenon DEF BufferOK
  <1>2. BufferOK /\ [BufferNext]_bufferVars => BufferOK'  BY BufferNextOK
  <1>3. BufferOK => ItemsInOrder
    <2> SUFFICES ASSUME BufferOK, clean, thread # NoThreads
                 PROVE  /\ results = [k \in 1..Len(results) |-> k]
                        /\ sem["vacios"] + sem["llenos"] + Holds("producer") + Holds("consumer")
                             = BUFFER_SIZE
                        /\ ~(Waits("producer") /\ Waits("consumer"))
                        /\ ~(Waits("consumer") /\ thread["producer"].i > ITEMS)
      BY Zenon DEF ItemsInOrder
    <2>1. TokensOK /\ ItemsOK /\ results \in Seq(Nat)  BY Zenon DEF BufferOK, BufferTypes
    <2>2. PICK n, j, h, g : /\ n = thread["producer"].i /\ j = thread["consumer"].i
                            /\ h = Holds("producer") /\ g = Holds("consumer")
      OBVIOUS
    <2>3. /\ n \in Nat /\ j \in Nat /\ h \in {0, 1} /\ g \in {0, 1}
          /\ BUFFER_SIZE \in Nat \ {0} /\ ITEMS \in Nat
      BY <2>2, BufferNats DEF BufferOK, BufferTypes, Role, Holds
    <2>4. /\ sem["vacios"] = BUFFER_SIZE - (n - 1) - h + (j - 1)
          /\ sem["llenos"] = (n - 1) - (j - 1) - g
      BY <2>1, <2>2, Zenon DEF TokensOK
    <2>5. sem["vacios"] + sem["llenos"] + h + g = BUFFER_SIZE  BY <2>3, <2>4
    <2>6. ASSUME Waits("consumer") PROVE j <= ITEMS /\ n = j
      <3>1. thread["consumer"].pc = 1 /\ j <= ITEMS /\ sem["llenos"] = 0
        BY <2>2, <2>6, LoopSteps DEF Waits, Role
      <3>2. g = 0  BY <2>2, <3>1 DEF Holds
      <3> QED  BY <2>3, <2>4, <3>1, <3>2
    <2>7. ASSUME Waits("producer") PROVE BUFFER_SIZE - (n - 1) + (j - 1) = 0
      <3>1. thread["producer"].pc = 1 /\ sem["vacios"] = 0
        BY <2>7, LoopSteps DEF Waits, Role
      <3>2. h = 0  BY <2>2, <3>1 DEF Holds
      <3> QED  BY <2>3, <2>4, <3>1, <3>2
    <2>8. ~(Waits("producer") /\ Waits("consumer"))  BY <2>3, <2>6, <2>7
    <2>9. ~(Waits("consumer") /\ n > ITEMS)  BY <2>3, <2>6
    <2>10. results = [k \in 1..Len(results) |-> k]
      <3>1. \A k \in 1..Len(results) : results[k] = k  BY <2>1, Zenon DEF ItemsOK
      <3>2. results = [k \in 1..Len(results) |-> results[k]]  BY <2>1
      <3> QED  BY <3>1, <3>2, Zenon
    <2> QED  BY <2>2, <2>5, <2>8, <2>9, <2>10, Zenon
  <1> QED  BY <1>1, <1>2, <1>3, PTL DEF BufferSpec
=============================================================================
