--------------------------- MODULE BufCacheProofs ---------------------------
(***************************************************************************)
(* Proofs about the buffer cache and the disk driver, for any number of    *)
(* processes, blocks and buffers: the inductive invariant of BufCache;     *)
(* what its proof needs to know of the list of buffers, the queue of the   *)
(* driver and the counts of references; that every step keeps it; and the  *)
(* safety properties of BufCache, which follow from it.                    *)
(***************************************************************************)
EXTENDS BufCache, Integers, FiniteSetTheorems, WellFoundedInduction, TLAPS

\* Where a process is, and what it has of its buffer: a reference from bget() to
\* brelse(), the lock from acquiresleep() to releasesleep().
ProcAt(p) ==
  /\ b[p] = NoBuf <=> pc[p] \in {"idle", "panic"}
  /\ b[p] # NoBuf => arg[p] \in Block /\ blockno[b[p]] = arg[p]
  /\ \A x \in Buf : holder[x] = p <=> b[p] = x /\ pc[p] \in {"bread", "iderw", "have"}
  /\ pc[p] = "bread" => ~valid[b[p]] /\ b[p] \notin Range(idequeue)
  /\ pc[p] = "have" => valid[b[p]] /\ b[p] \notin Range(idequeue)
  /\ pc[p] = "iderw" => (valid[b[p]] /\ ~dirty[b[p]] <=> b[p] \notin Range(idequeue))
ProcOK == \A p \in Proc : ProcAt(p)

\* The queue of the driver: each buffer once, and somebody waits for it.
QueueOK ==
  /\ \A i, j \in DOMAIN idequeue : idequeue[i] = idequeue[j] => i = j
  /\ \A x \in Range(idequeue) : \E p \in Proc : b[p] = x /\ pc[p] = "iderw"
  /\ (cmd = NoCmd) <=> (idequeue = <<>>)
  /\ cmd # NoCmd =>
       /\ cmd.block = blockno[Head(idequeue)]
       /\ cmd.write = dirty[Head(idequeue)]
       /\ cmd.write => cmd.data = data[Head(idequeue)]

\* A valid buffer has what was last put in its block; so has the disk, unless a
\* buffer is yet to be written.
DataOK ==
  /\ \A x \in Buf : dirty[x] => valid[x]
  /\ \A x \in Buf : valid[x] => blockno[x] \in Block /\ data[x] = current[blockno[x]]
  /\ \A k \in Block : disk[k] # current[k] => \E x \in Buf : blockno[x] = k /\ dirty[x]
  /\ \A x, y \in Buf : blockno[x] = blockno[y] /\ blockno[x] # NoBlock => x = y

\* b->refcnt counts the processes between bget() and brelse(), and the log pins
\* no more than it may.
Users(x) == {p \in Proc : b[p] = x}
CountOK ==
  /\ \A x \in Buf : refcnt[x] = Cardinality(Users(x))
  /\ Cardinality(Pinned) <= MaxPinned

\* The inductive invariant.
IInv == TypeOK /\ ProcOK /\ QueueOK /\ DataOK /\ CountOK /\ NoPanic

-----------------------------------------------------------------------------
\* The context of the late leaves is large: more time for each of them.
USE SMTT(30), ZenonT(30)

\* A step keeps what is known of a process if it leaves the process, the buffers
\* and the queue alone.
LEMMA ProcKept ==
  ASSUME IInv, NEW o \in Proc, b'[o] = b[o], pc'[o] = pc[o], arg'[o] = arg[o],
         UNCHANGED <<blockno, valid, dirty, holder, idequeue>>
  PROVE  ProcAt(o)'
  BY DEF IInv, ProcOK, ProcAt

\* A step that leaves the buffers, the blocks and the disk alone keeps their
\* data.
LEMMA DataKept ==
  ASSUME IInv, UNCHANGED <<disk, blockno, valid, dirty, data, current>>
  PROVE  DataOK'
  BY DEF IInv, DataOK

\* A step that leaves the queue, its command and the buffers alone keeps the
\* queue, if every buffer in it still has somebody that waits for it.
LEMMA QueueKept ==
  ASSUME IInv, UNCHANGED <<blockno, dirty, data, idequeue, cmd>>,
         \A x \in Range(idequeue) : \E o \in Proc : b'[o] = x /\ pc'[o] = "iderw"
  PROVE  QueueOK'
  BY DEF IInv, QueueOK

\* It does, if those that wait for the driver go on waiting.
LEMMA WaitersKept ==
  ASSUME IInv, \A o \in Proc : pc[o] = "iderw" => b'[o] = b[o] /\ pc'[o] = "iderw"
  PROVE  \A x \in Range(idequeue) : \E o \in Proc : b'[o] = x /\ pc'[o] = "iderw"
  BY DEF IInv, QueueOK

\* A set of positions of a list has a last one.
LEMMA LastIn ==
  ASSUME NEW n \in Nat, NEW T \in SUBSET (1..n), T # {}
  PROVE  \E i \in T : \A j \in i+1..n : j \notin T
  <1> DEFINE D == {d \in Nat : \E i \in T : d = n - i}
             R == OpToRel(<, Nat)
  <1>1. PICK t \in T : TRUE  BY Zenon
  <1>2. n - t \in Nat  OBVIOUS
  <1>3. n - t \in D  BY <1>2
  <1>4. PICK d \in D : \A e \in D : ~(<<e, d>> \in R)
    BY <1>3, NatLessThanWellFounded, WFMin, Zenon
  <1>5. \A e \in D : ~(e < d)
    <2>1. \A e \in Nat : e < d => <<e, d>> \in R  BY DEF OpToRel
    <2> QED  BY <1>4, <2>1, Zenon
  <1>6. PICK i \in T : d = n - i  OBVIOUS
  <1>7. ASSUME NEW j \in i+1..n, j \in T  PROVE FALSE
    <2>1. n - j \in D /\ n - j < n - i  BY <1>7
    <2> QED  BY <1>5, <1>6, <2>1
  <1> QED  BY <1>6, <1>7

\* bget() finds a buffer on its way back through the list if there is one.
LEMMA LeastRecentIn ==
  ASSUME TypeOK, NEW S \in SUBSET Buf, S # {}
  PROVE  LeastRecent(S) \in S
  <1> DEFINE T == {i \in 1..Len(mru) : mru[i] \in S}
  <1>0. /\ mru \in [1..Len(mru) -> Buf] /\ Range(mru) = Buf /\ Len(mru) \in Nat
        /\ DOMAIN mru = 1..Len(mru)
    <2>1. mru \in [1..Len(mru) -> Buf] /\ Range(mru) = Buf  BY DEF TypeOK
    <2>2. Len(mru) \in Nat  BY DEF TypeOK
    <2> QED  BY <2>1, <2>2
  <1>1. PICK x \in S : TRUE  OBVIOUS
  <1>2. PICK i \in 1..Len(mru) : mru[i] = x  BY <1>0 DEF Range
  <1>3. T \in SUBSET (1..Len(mru)) /\ T # {}  BY <1>2
  <1>4. \E k \in T : \A j \in k+1..Len(mru) : j \notin T  BY <1>0, <1>3, LastIn, Zenon
  <1>5. \E k \in 1..Len(mru) : mru[k] \in S /\ \A j \in k+1..Len(mru) : mru[j] \notin S
    <2>1. PICK k \in T : \A j \in k+1..Len(mru) : j \notin T  BY <1>4
    <2>2. \A j \in k+1..Len(mru) : j \in 1..Len(mru)  BY <1>0, <2>1
    <2> QED  BY <2>1, <2>2
  <1> QED  BY <1>5, Zenon DEF LeastRecent


\* binit() links every buffer into the list once.
LEMMA ListOfBuffers ==
  ASSUME NEW m, m = CHOOSE f \in Bijection(1..Cardinality(Buf), Buf) : TRUE
  PROVE  m \in [1..Len(m) -> Buf] /\ Range(m) = Buf /\ IsInjective(m)
  <1> DEFINE n == Cardinality(Buf)
  <1>1. n \in Nat /\ ExistsBijection(1..n, Buf)  BY BufAssumption, FS_CardinalityType
  <1>2. m \in Bijection(1..n, Buf)  BY <1>1, Zenon DEF ExistsBijection
  <1>3. /\ m \in [1..n -> Buf] /\ IsInjective(m)
        /\ \A x \in Buf : \E i \in 1..n : m[i] = x
    BY <1>2, Zenon DEF Bijection, Injection, Surjection
  <1> HIDE DEF n
  <1>4. Len(m) = n  BY <1>1, <1>3
  <1>5. Range(m) = Buf  BY <1>3, Zenon DEF Range
  <1> QED  BY <1>3, <1>4, <1>5, Zenon

\* brelse() moves a buffer to the head of the list.
LEMMA MoveToFront ==
  ASSUME TypeOK, NEW x \in Buf, NEW m, m = ToHead(x)
  PROVE  m \in [1..Len(m) -> Buf] /\ Range(m) = Buf /\ IsInjective(m)
  <1> DEFINE n == Len(mru)
             i == Place(x)
  <1>0. /\ mru \in [1..n -> Buf] /\ n \in Nat /\ mru \in Seq(Buf) /\ DOMAIN mru = 1..n
        /\ \A y \in Buf : \E j \in 1..n : mru[j] = y
        /\ \A j, k \in 1..n : mru[j] = mru[k] => j = k
    <2>1. mru \in [1..n -> Buf] /\ n \in Nat  BY DEF TypeOK
    <2>2. mru \in Seq(Buf) /\ DOMAIN mru = 1..n  BY <2>1
    <2>3. Range(mru) = Buf /\ IsInjective(mru)  BY DEF TypeOK
    <2> QED  BY <2>1, <2>2, <2>3, Zenon DEF Range, IsInjective
  <1>1. i \in 1..n /\ mru[i] = x
    <2>1. \E j \in 1..n : mru[j] = x  BY <1>0
    <2> QED  BY <2>1, Zenon DEF Place
  <1> HIDE DEF n, i
  <1>n. n \in Nat /\ i \in 1..n  BY <1>0, <1>1
  <1>7. m = [j \in 1..n |-> IF j = 1 THEN x ELSE IF j <= i THEN mru[j - 1] ELSE mru[j]]
    BY DEF ToHead, n, i
  <1>8. m \in [1..n -> Buf]  BY <1>0, <1>n, <1>7
  <1>9. Range(m) = Buf
    <2>1. \A y \in Buf : \E j \in 1..n : m[j] = y
      <3> TAKE y \in Buf
      <3>1. PICK j \in 1..n : mru[j] = y  BY <1>0
      <3>2. CASE j < i
        <4>1. j + 1 \in 1..n /\ j + 1 # 1 /\ j + 1 <= i /\ (j + 1) - 1 = j
          BY <1>0, <1>1, <3>2
        <4>2. m[j + 1] = mru[(j + 1) - 1]  BY <1>7, <4>1
        <4> QED  BY <3>1, <4>1, <4>2, Zenon
      <3>3. CASE j = i
        <4>1. m[1] = y /\ 1 \in 1..n  BY <1>0, <1>1, <1>7, <3>1, <3>3
        <4> QED  BY <4>1
      <3>4. CASE j > i
        <4>1. m[j] = y  BY <1>0, <1>1, <1>7, <3>1, <3>4
        <4> QED  BY <4>1, Zenon
      <3>5. j < i \/ j = i \/ j > i  BY <1>n
      <3> QED  BY <3>2, <3>3, <3>4, <3>5, Zenon
    <2> QED  BY <1>8, <2>1, Zenon DEF Range
  <1>10. ASSUME NEW j \in 1..n, NEW k \in 1..n, m[j] = m[k]  PROVE j = k
    <2> DEFINE s(a) == IF a = 1 THEN i ELSE IF a <= i THEN a - 1 ELSE a
    <2>1. \A a \in 1..n : s(a) \in 1..n /\ m[a] = mru[s(a)]  BY <1>0, <1>1, <1>7
    <2>2. s(j) = s(k)
      <3>1. s(j) \in 1..n /\ s(k) \in 1..n /\ mru[s(j)] = mru[s(k)]  BY <1>10, <2>1, Zenon
      <3> HIDE DEF s
      <3> QED  BY <1>0, <3>1
    <2> QED  BY <2>2, <1>0, <1>1
  <1>11. IsInjective(m)  BY <1>8, <1>10, Zenon DEF IsInjective
  <1>12. Len(m) = n  BY <1>n, <1>8
  <1> QED  BY <1>8, <1>9, <1>11, <1>12

\* The queue of the driver grows at its end ...
LEMMA QueueAppend ==
  ASSUME NEW q \in Seq(Buf), NEW x \in Buf
  PROVE  /\ Append(q, x) \in Seq(Buf) /\ Append(q, x) # <<>>
         /\ Range(Append(q, x)) = Range(q) \cup {x}
         /\ q # <<>> => Head(Append(q, x)) = Head(q)
         /\ q = <<>> => Head(Append(q, x)) = x
         /\ (\A i, j \in DOMAIN q : q[i] = q[j] => i = j) /\ x \notin Range(q)
              => \A i, j \in DOMAIN Append(q, x) : Append(q, x)[i] = Append(q, x)[j] => i = j
  <1> DEFINE a == Append(q, x)
             n == Len(q)
  <1>1. /\ a \in Seq(Buf) /\ a # <<>> /\ DOMAIN a = 1..n+1 /\ DOMAIN q = 1..n
        /\ n \in Nat /\ a[n + 1] = x /\ \A i \in 1..n : a[i] = q[i]
    OBVIOUS
  <1>2. (q # <<>> => Head(a) = Head(q)) /\ (q = <<>> => Head(a) = x)  OBVIOUS
  <1> HIDE DEF a, n
  <1>3. \A i \in 1..n+1 : i \in 1..n \/ i = n + 1  BY <1>1
  <1>4. \A i \in 1..n : i \in 1..n+1 /\ i # n + 1  BY <1>1
  <1>5. n + 1 \in 1..n+1  BY <1>1
  <1>6. Range(a) = Range(q) \cup {x}
    BY <1>1, <1>3, <1>4, <1>5, Zenon DEF Range
  <1>7. ASSUME \A i, j \in DOMAIN q : q[i] = q[j] => i = j, x \notin Range(q),
               NEW i \in DOMAIN a, NEW j \in DOMAIN a, a[i] = a[j]
        PROVE  i = j
    <2>1. \A k \in 1..n : q[k] # x  BY <1>1, <1>7 DEF Range
    <2> QED  BY <1>1, <1>3, <1>7, <2>1
  <1> QED  BY <1>1, <1>2, <1>6, <1>7 DEF a

\* ... and shrinks at its head.
LEMMA QueueTail ==
  ASSUME NEW q \in Seq(Buf), q # <<>>, \A i, j \in DOMAIN q : q[i] = q[j] => i = j
  PROVE  /\ Head(q) \in Buf /\ Tail(q) \in Seq(Buf)
         /\ Range(q) = Range(Tail(q)) \cup {Head(q)}
         /\ Head(q) \notin Range(Tail(q))
         /\ \A i, j \in DOMAIN Tail(q) : Tail(q)[i] = Tail(q)[j] => i = j
         /\ Tail(q) # <<>> => Tail(q)[1] = Head(Tail(q)) /\ Tail(q)[1] \in Range(Tail(q))
  <1> DEFINE t == Tail(q)
             n == Len(q)
  <1>1. /\ n \in Nat /\ n >= 1 /\ DOMAIN q = 1..n /\ t \in Seq(Buf) /\ DOMAIN t = 1..n-1
        /\ \A i \in 1..n-1 : t[i] = q[i + 1]
        /\ Head(q) = q[1] /\ q[1] \in Buf
    OBVIOUS
  <1>2. t # <<>> => t[1] = Head(t) /\ 1 \in DOMAIN t  OBVIOUS
  <1> HIDE DEF t, n
  <1>3. \A i \in 1..n-1 : i + 1 \in 1..n /\ i + 1 # 1  BY <1>1
  <1>4. \A i \in 1..n : i = 1 \/ (i - 1 \in 1..n-1 /\ (i - 1) + 1 = i)  BY <1>1
  <1>5. 1 \in 1..n  BY <1>1
  <1>6. \A i \in 1..n : i = 1 \/ \E j \in 1..n-1 : t[j] = q[i]  BY <1>1, <1>4, ZenonT(30)
  <1>7. Range(q) = Range(t) \cup {Head(q)}
    <2>1. \A y \in Range(q) : y = Head(q) \/ y \in Range(t)
      <3>1. \A j \in 1..n-1 : t[j] \in Range(t)
        <4>1. DOMAIN t = 1..n-1  BY <1>1
        <4> QED  BY <4>1, Zenon DEF Range
      <3>2. \A i \in 1..n : q[i] = Head(q) \/ q[i] \in Range(t)
        <4>1. Head(q) = q[1]  BY <1>1
        <4> QED  BY <1>6, <3>1, <4>1, Zenon
      <3>3. DOMAIN q = 1..n  BY <1>1
      <3> QED  BY <3>2, <3>3, Zenon DEF Range
    <2>2. \A y \in Range(t) : y \in Range(q)  BY <1>1, <1>3 DEF Range
    <2>3. Head(q) \in Range(q)  BY <1>1, <1>5 DEF Range
    <2> QED  BY <2>1, <2>2, <2>3
  <1>8. Head(q) \notin Range(t)  BY <1>1, <1>3, <1>5 DEF Range
  <1>9. ASSUME NEW i \in 1..n-1, NEW j \in 1..n-1, t[i] = t[j]  PROVE i = j
    <2>1. q[i + 1] = q[j + 1] /\ i + 1 \in 1..n /\ j + 1 \in 1..n  BY <1>1, <1>3, <1>9
    <2>2. i + 1 = j + 1  BY <1>1, <2>1, Zenon
    <2> QED  BY <1>1, <2>2
  <1>10. t # <<>> => t[1] = Head(t) /\ t[1] \in Range(t)  BY <1>2 DEF Range
  <1> QED  BY <1>1, <1>7, <1>8, <1>9, <1>10 DEF t

\* The processes that have a buffer are finitely many.
LEMMA UsersFinite ==
  ASSUME NEW S \in SUBSET Proc
  PROVE  IsFiniteSet(S) /\ Cardinality(S) \in Nat /\ (Cardinality(S) = 0 <=> S = {})
  BY BufAssumption, FS_Subset, FS_CardinalityType, FS_EmptySet

\* So are the buffers.
LEMMA BufsFinite ==
  ASSUME NEW S \in SUBSET Buf
  PROVE  IsFiniteSet(S) /\ Cardinality(S) \in Nat
  BY BufAssumption, FS_Subset, FS_CardinalityType

\* The log pins no more buffers than before if it pins no other ones.
LEMMA PinnedShrinks ==
  ASSUME NEW S \in SUBSET Buf, NEW T \in SUBSET S, Cardinality(S) <= MaxPinned
  PROVE  Cardinality(T) <= MaxPinned
  <1>1. IsFiniteSet(S) /\ Cardinality(S) \in Nat  BY BufsFinite
  <1>2. Cardinality(T) <= Cardinality(S) /\ Cardinality(T) \in Nat
    BY <1>1, FS_Subset, BufsFinite
  <1> QED  BY <1>1, <1>2, BufAssumption

\* bget() finds a buffer if there is one for every process beside those that the
\* log may pin: p itself has none yet, a buffer that is in use has a process of
\* its own, and one that is not but is dirty is pinned.
LEMMA BufferFree ==
  ASSUME IInv, NEW p \in Proc, b[p] = NoBuf,
         Cardinality(Buf) >= Cardinality(Proc) + MaxPinned
  PROVE  Unused # {}
  <1> SUFFICES ASSUME Unused = {}  PROVE FALSE  OBVIOUS
  <1> DEFINE Used == {x \in Buf : refcnt[x] # 0}
             Others == {o \in Proc : b[o] \in Used}
  <1>1. \A x \in Used : \E o \in Others : b[o] = x
    <2> TAKE x \in Used
    <2>1. Cardinality(Users(x)) # 0  BY DEF IInv, CountOK
    <2>2. Users(x) # {}  BY <2>1, UsersFinite DEF Users
    <2> QED  BY <2>2 DEF Users
  <1>2. [o \in Others |-> b[o]] \in Surjection(Others, Used)
    BY <1>1, Zenon DEF Surjection
  <1>3. IsFiniteSet(Others)  BY UsersFinite
  <1>4. Cardinality(Used) <= Cardinality(Others)  BY <1>2, <1>3, FS_Surjection
  <1>5. p \notin Others  BY BufAssumption
  <1>6. Others \subseteq Proc \ {p}  BY <1>5
  <1>7. Cardinality(Proc \ {p}) = Cardinality(Proc) - 1 /\ IsFiniteSet(Proc \ {p})
    BY BufAssumption, FS_RemoveElement
  <1>8. Cardinality(Others) <= Cardinality(Proc) - 1  BY <1>6, <1>7, FS_Subset
  <1>9. Buf \subseteq Used \cup Pinned
    <2> SUFFICES ASSUME NEW x \in Buf, x \notin Used  PROVE x \in Pinned  OBVIOUS
    <2>1. dirty[x]  BY DEF Unused
    <2>2. Users(x) = {}  BY UsersFinite, Zenon DEF IInv, CountOK, Users
    <2>3. x \notin Range(idequeue)  BY <2>2 DEF IInv, QueueOK, Users
    <2> QED  BY <2>1, <2>3 DEF Pinned
  <1>10. Used \subseteq Buf /\ Pinned \subseteq Buf  BY DEF Pinned
  <1>11. /\ IsFiniteSet(Used) /\ Cardinality(Used) \in Nat
         /\ IsFiniteSet(Pinned) /\ Cardinality(Pinned) \in Nat
    BY <1>10, BufsFinite
  <1>12. /\ IsFiniteSet(Used \cup Pinned)
         /\ Cardinality(Used \cup Pinned)
              = Cardinality(Used) + Cardinality(Pinned) - Cardinality(Used \cap Pinned)
         /\ Cardinality(Used \cap Pinned) \in Nat
    <2>1. Used \cap Pinned \subseteq Buf  BY <1>10
    <2> QED  BY <1>11, <2>1, FS_Union, BufsFinite, Zenon
  <1>13. Cardinality(Buf) <= Cardinality(Used \cup Pinned)  BY <1>9, <1>12, FS_Subset
  <1>14. Cardinality(Pinned) <= MaxPinned  BY DEF IInv, CountOK
  <1>15. /\ Cardinality(Buf) \in Nat /\ Cardinality(Proc) \in Nat
         /\ Cardinality(Others) \in Nat
    BY BufsFinite, UsersFinite
  <1> HIDE DEF Used, Others
  <1> QED  BY <1>4, <1>8, <1>11, <1>12, <1>13, <1>14, <1>15, BufAssumption

-----------------------------------------------------------------------------
\* binit() establishes the invariant.
LEMMA InitIInv ==
  ASSUME Init
  PROVE  IInv
  <1>1. mru \in [1..Len(mru) -> Buf] /\ Range(mru) = Buf /\ IsInjective(mru)
    BY ListOfBuffers DEF Init
  <1>2. idequeue \in Seq(Buf)  BY DEF Init
  <1>3. data \in [Buf -> Val] /\ disk \in [Block -> Val] /\ current = disk
    BY BufAssumption, Zenon DEF Init
  <1>4. /\ blockno \in [Buf -> Block \cup {NoBlock}]
        /\ valid \in [Buf -> BOOLEAN] /\ dirty \in [Buf -> BOOLEAN]
        /\ refcnt \in [Buf -> Nat]
        /\ holder \in [Buf -> Proc \cup {NoProc}]
        /\ pc \in [Proc -> {"idle", "lock", "bread", "iderw", "have", "brelse", "panic"}]
        /\ arg \in [Proc -> Block \cup {NoBlock}]
        /\ b \in [Proc -> Buf \cup {NoBuf}] /\ cmd = NoCmd
    BY DEF Init
  <1>5. TypeOK  BY <1>1, <1>2, <1>3, <1>4 DEF TypeOK
  <1>6. ProcOK  BY BufAssumption DEF Init, ProcOK, ProcAt
  <1>7. Range(idequeue) = {} /\ DOMAIN idequeue = {}  BY DEF Init, Range
  <1>8. QueueOK  BY <1>7 DEF Init, QueueOK
  <1>9. DataOK  BY DEF Init, DataOK
  <1>10. \A x \in Buf : Users(x) = {}  BY BufAssumption DEF Init, Users
  <1>11. Pinned = {}  BY DEF Init, Pinned
  <1>12. CountOK
    <2>1. Cardinality(Pinned) = 0  BY <1>11, FS_EmptySet, Zenon
    <2>2. \A x \in Buf : Cardinality(Users(x)) = 0  BY <1>10, FS_EmptySet, Zenon
    <2>3. \A x \in Buf : refcnt[x] = 0  BY DEF Init
    <2>4. 0 <= MaxPinned  BY BufAssumption
    <2> QED  BY <2>1, <2>2, <2>3, <2>4, Zenon DEF CountOK
  <1>13. NoPanic  BY DEF Init, NoPanic
  <1> QED  BY <1>5, <1>6, <1>8, <1>9, <1>12, <1>13 DEF IInv

\* Whoever has called iderw() holds the buffer while the driver has it.
LEMMA Queued ==
  ASSUME IInv
  PROVE  /\ \A x \in Range(idequeue) :
              /\ x \in Buf /\ (valid[x] => dirty[x])
              /\ \E o \in Proc : b[o] = x /\ pc[o] = "iderw" /\ holder[x] = o
         /\ idequeue # <<>> => Head(idequeue) \in Range(idequeue)
  <1>1. idequeue \in Seq(Buf)  BY DEF IInv, TypeOK
  <1>2. \A x \in Range(idequeue) : x \in Buf  BY <1>1 DEF Range
  <1>3. \A x \in Range(idequeue) : \E o \in Proc : b[o] = x /\ pc[o] = "iderw"
    BY DEF IInv, QueueOK
  <1>4. ASSUME NEW x \in Range(idequeue), NEW o \in Proc, b[o] = x, pc[o] = "iderw"
        PROVE  holder[x] = o /\ (valid[x] => dirty[x])
    BY <1>2, <1>4 DEF IInv, ProcOK, ProcAt
  <1>5. idequeue # <<>> => Head(idequeue) \in Range(idequeue)
    BY <1>1, QueueTail DEF IInv, QueueOK
  <1> QED  BY <1>2, <1>3, <1>4, <1>5

\* A buffer without references is nobody's.
LEMMA Unreferenced ==
  ASSUME IInv, NEW x \in Buf, refcnt[x] = 0
  PROVE  /\ \A o \in Proc : b[o] # x
         /\ x \notin Range(idequeue) /\ Users(x) = {}
  <1>1. Users(x) = {}  BY UsersFinite, Zenon DEF IInv, CountOK, Users
  <1>2. \A o \in Proc : b[o] # x  BY <1>1 DEF Users
  <1> QED  BY <1>1, <1>2, Queued

\* bget() of a block that has a buffer.
LEMMA BgetCached ==
  ASSUME IInv, NEW p \in Proc, NEW k \in Block, NEW x \in Buf, blockno[x] = k,
         pc[p] = "idle", arg' = [arg EXCEPT ![p] = k], refcnt' = [refcnt EXCEPT ![x] = @ + 1],
         b' = [b EXCEPT ![p] = x], pc' = [pc EXCEPT ![p] = "lock"],
         UNCHANGED <<disk, blockno, valid, dirty, data, holder, mru, idequeue, cmd, current>>
  PROVE  IInv'
  <1>0. TypeOK /\ b[p] = NoBuf /\ x # NoBuf  BY BufAssumption DEF IInv, ProcOK, ProcAt
  <1>1. TypeOK'  BY <1>0 DEF TypeOK
  <1>2. /\ b'[p] = x /\ pc'[p] = "lock" /\ arg'[p] = k
        /\ \A o \in Proc \ {p} : b'[o] = b[o] /\ pc'[o] = pc[o] /\ arg'[o] = arg[o]
    BY <1>0 DEF TypeOK
  <1>3. ProcOK'  BY <1>0, <1>2 DEF IInv, ProcOK, ProcAt
  <1>4. QueueOK'
    <2>1. \A o \in Proc : pc[o] = "iderw" => b'[o] = b[o] /\ pc'[o] = "iderw"  BY <1>2
    <2> QED  BY <2>1, WaitersKept, QueueKept, Zenon
  <1>5. DataOK' /\ Pinned' = Pinned  BY DataKept DEF Pinned
  <1>6. Users(x)' = Users(x) \cup {p} /\ p \notin Users(x)  BY <1>0, <1>2 DEF Users
  <1>7. \A y \in Buf \ {x} : Users(y)' = Users(y) /\ refcnt'[y] = refcnt[y]
    <2>1. \A y \in Buf \ {x} : refcnt'[y] = refcnt[y]  BY <1>0 DEF TypeOK
    <2>2. \A y \in Buf \ {x} : y # NoBuf  BY BufAssumption
    <2>3. ASSUME NEW y \in Buf \ {x}  PROVE \A o \in Proc : b'[o] = y <=> b[o] = y
      BY <1>0, <1>2, <2>2
    <2>4. \A y \in Buf \ {x} : Users(y)' = Users(y)  BY <2>3 DEF Users
    <2> QED  BY <2>1, <2>4
  <1>8. refcnt'[x] = Cardinality(Users(x)')
    <2>1. IsFiniteSet(Users(x)) /\ refcnt[x] = Cardinality(Users(x)) /\ refcnt'[x] = refcnt[x] + 1
      BY <1>0, UsersFinite DEF Users, IInv, CountOK, TypeOK
    <2> QED  BY <1>6, <2>1, FS_AddElement, Zenon
  <1>9. CountOK'  BY <1>5, <1>7, <1>8, Zenon DEF IInv, CountOK
  <1>10. NoPanic'  BY <1>2 DEF IInv, NoPanic
  <1> QED  BY <1>1, <1>3, <1>4, <1>5, <1>9, <1>10 DEF IInv

\* bget() of a block without a buffer takes one that nobody has and that is not
\* to be written.
LEMMA BgetRecycled ==
  ASSUME IInv, NEW p \in Proc, NEW k \in Block, NEW x \in Unused,
         \A y \in Buf : blockno[y] # k,
         pc[p] = "idle", arg' = [arg EXCEPT ![p] = k], refcnt' = [refcnt EXCEPT ![x] = 1],
         blockno' = [blockno EXCEPT ![x] = k], valid' = [valid EXCEPT ![x] = FALSE],
         dirty' = [dirty EXCEPT ![x] = FALSE],
         b' = [b EXCEPT ![p] = x], pc' = [pc EXCEPT ![p] = "lock"],
         UNCHANGED <<disk, data, holder, mru, idequeue, cmd, current>>
  PROVE  IInv'
  <1>0. TypeOK /\ x \in Buf /\ ~dirty[x] /\ refcnt[x] = 0 /\ b[p] = NoBuf /\ x # NoBuf
    BY BufAssumption DEF IInv, ProcOK, ProcAt, Unused
  <1>u. (\A o \in Proc : b[o] # x) /\ x \notin Range(idequeue) /\ Users(x) = {}
    BY <1>0, Unreferenced
  <1>1. TypeOK'  BY <1>0 DEF TypeOK
  <1>2. /\ b'[p] = x /\ pc'[p] = "lock" /\ arg'[p] = k
        /\ \A o \in Proc \ {p} : b'[o] = b[o] /\ pc'[o] = pc[o] /\ arg'[o] = arg[o]
    BY <1>0 DEF TypeOK
  <1>3. /\ blockno'[x] = k /\ ~valid'[x] /\ ~dirty'[x] /\ refcnt'[x] = 1
        /\ \A y \in Buf \ {x} : /\ blockno'[y] = blockno[y] /\ valid'[y] = valid[y]
                                /\ dirty'[y] = dirty[y] /\ refcnt'[y] = refcnt[y]
    BY <1>0, Zenon DEF TypeOK
  <1>4. ProcOK'
    <2>1. \A o \in Proc \ {p} : b[o] # NoBuf => b[o] \in Buf \ {x}  BY <1>0, <1>u DEF TypeOK
    <2> QED  BY <1>0, <1>u, <1>2, <1>3, <2>1 DEF IInv, ProcOK, ProcAt
  <1>5. QueueOK'
    <2>1. cmd # NoCmd => Head(idequeue) \in Buf \ {x}
      BY <1>u, Queued, Zenon DEF IInv, QueueOK
    <2>2. \A y \in Range(idequeue) : \E o \in Proc : b'[o] = y /\ pc'[o] = "iderw"
      BY <1>2 DEF IInv, QueueOK
    <2>3. cmd # NoCmd =>
            /\ cmd.block = blockno'[Head(idequeue)]
            /\ cmd.write = dirty'[Head(idequeue)]
            /\ cmd.write => cmd.data = data[Head(idequeue)]
      BY <1>3, <2>1, Zenon DEF IInv, QueueOK
    <2> QED  BY <2>2, <2>3, Zenon DEF IInv, QueueOK
  <1>6. DataOK'
    <2>1. \A y \in Buf : dirty'[y] => valid'[y]  BY <1>3 DEF IInv, DataOK
    <2>2. \A y \in Buf : valid'[y] => blockno'[y] \in Block /\ data[y] = current[blockno'[y]]
      BY <1>3 DEF IInv, DataOK
    <2>3. \A l \in Block : disk[l] # current[l] => \E y \in Buf : blockno'[y] = l /\ dirty'[y]
      BY <1>0, <1>3 DEF IInv, DataOK
    <2>4. \A y, z \in Buf : blockno'[y] = blockno'[z] /\ blockno'[y] # NoBlock => y = z
      BY <1>3 DEF IInv, DataOK
    <2> QED  BY <2>1, <2>2, <2>3, <2>4 DEF DataOK
  <1>7. Pinned' = Pinned  BY <1>0, <1>3 DEF Pinned
  <1>8. Users(x)' = {p}
    BY <1>u, <1>2 DEF Users
  <1>9. \A y \in Buf \ {x} : Users(y)' = Users(y)
    <2>1. \A y \in Buf : y # NoBuf  BY BufAssumption
    <2>2. ASSUME NEW y \in Buf \ {x}  PROVE \A o \in Proc : b'[o] = y <=> b[o] = y
      BY <1>0, <1>2, <2>1
    <2> QED  BY <2>2 DEF Users
  <1>10. CountOK'
    <2>1. Cardinality({p}) = 1  BY FS_Singleton, Zenon
    <2>2. Cardinality(Pinned') <= MaxPinned  BY <1>7 DEF IInv, CountOK
    <2>3. refcnt'[x] = Cardinality(Users(x)')  BY <1>3, <1>8, <2>1
    <2>4. \A y \in Buf \ {x} : refcnt'[y] = Cardinality(Users(y)')
      BY <1>3, <1>9, Zenon DEF IInv, CountOK
    <2>5. \A y \in Buf : refcnt'[y] = Cardinality(Users(y)')  BY <2>3, <2>4, Zenon
    <2> QED  BY <2>2, <2>5, Zenon DEF CountOK
  <1>11. NoPanic'  BY <1>2 DEF IInv, NoPanic
  <1> QED  BY <1>1, <1>4, <1>5, <1>6, <1>10, <1>11, Zenon DEF IInv

\* A step that leaves buffers and references alone.
LEMMA CountSame ==
  ASSUME IInv, UNCHANGED <<b, refcnt, dirty, idequeue>>
  PROVE  CountOK'
  <1>1. Pinned' = Pinned /\ \A x \in Buf : Users(x)' = Users(x)  BY DEF Pinned, Users
  <1> QED  BY <1>1 DEF IInv, CountOK

\* "bget: no buffers".
LEMMA BgetPanic ==
  ASSUME IInv, NEW p \in Proc, NEW k \in Block, Unused = {},
         pc[p] = "idle", arg' = [arg EXCEPT ![p] = k], pc' = [pc EXCEPT ![p] = "panic"],
         UNCHANGED <<disk, blockno, valid, dirty, refcnt, data, holder, mru, idequeue, cmd, b, current>>
  PROVE  IInv'
  <1>0. TypeOK /\ b[p] = NoBuf  BY DEF IInv, ProcOK, ProcAt
  <1>1. TypeOK'  BY <1>0 DEF TypeOK
  <1>2. /\ pc'[p] = "panic"
        /\ \A o \in Proc \ {p} : pc'[o] = pc[o] /\ arg'[o] = arg[o]
    BY <1>0, Zenon DEF TypeOK
  <1>3. ProcOK'  BY <1>0, <1>2, BufAssumption DEF IInv, ProcOK, ProcAt
  <1>4. QueueOK' /\ DataOK'
    <2>1. \A o \in Proc : pc[o] = "iderw" => b'[o] = b[o] /\ pc'[o] = "iderw"  BY <1>2
    <2> QED  BY <2>1, WaitersKept, QueueKept, DataKept, Zenon
  <1>5. CountOK'  BY CountSame
  <1>6. NoPanic'
    <2>1. ~(Cardinality(Buf) >= Cardinality(Proc) + MaxPinned)  BY <1>0, BufferFree
    <2> QED  BY <2>1 DEF NoPanic
  <1> QED  BY <1>1, <1>3, <1>4, <1>5, <1>6 DEF IInv

\* bget() keeps the invariant.
LEMMA BgetStep ==
  ASSUME IInv, NEW p \in Proc, NEW k \in Block, Bget(p, k)
  PROVE  IInv'
  <1>1. CASE \E x \in Buf : blockno[x] = k
    BY <1>1, BgetCached, Zenon DEF Bget, GoTo
  <1>2. CASE ~\E x \in Buf : blockno[x] = k
    <2>1. CASE Unused = {}  BY <1>2, <2>1, BgetPanic, Zenon DEF Bget, GoTo, bufs
    <2>2. CASE Unused # {}
      <3>1. LeastRecent(Unused) \in Unused
        <4>1. TypeOK /\ Unused \in SUBSET Buf  BY DEF IInv, Unused
        <4> QED  BY <2>2, <4>1, LeastRecentIn, Zenon
      <3> QED  BY <1>2, <2>2, <3>1, BgetRecycled, Zenon DEF Bget, GoTo
    <2> QED  BY <2>1, <2>2
  <1> QED  BY <1>1, <1>2

\* acquiresleep(): the buffer is free, so it is not in the queue either.
LEMMA BgetLockStep ==
  ASSUME IInv, NEW p \in Proc, BgetLock(p)
  PROVE  IInv'
  <1> DEFINE x == b[p]
  <1>0. TypeOK /\ x \in Buf /\ x # NoBuf /\ pc[p] = "lock" /\ holder[x] = NoProc
    BY BufAssumption, Zenon DEF IInv, ProcOK, ProcAt, BgetLock, TypeOK
  <1>u. x \notin Range(idequeue)  BY <1>0, Queued, BufAssumption
  <1>f. UNCHANGED <<disk, blockno, valid, dirty, refcnt, data, mru, idequeue, cmd, arg, b, current>>
    BY DEF BgetLock, bufs
  <1>1. /\ pc' \in [Proc -> {"idle", "lock", "bread", "iderw", "have", "brelse", "panic"}]
        /\ holder' \in [Buf -> Proc \cup {NoProc}]
        /\ pc'[p] = (IF valid[x] THEN "have" ELSE "bread") /\ holder'[x] = p
        /\ \A o \in Proc \ {p} : pc'[o] = pc[o]
        /\ \A y \in Buf \ {x} : holder'[y] = holder[y]
    BY <1>0 DEF BgetLock, GoTo, TypeOK
  <1>2. TypeOK'  BY <1>0, <1>1, <1>f, Zenon DEF TypeOK
  <1>3. ProcOK'
    <2>1. ASSUME NEW o \in Proc, NEW y \in Buf
          PROVE  holder'[y] = o <=> b[o] = y /\ pc'[o] \in {"bread", "iderw", "have"}
      <3>1. holder[y] = o <=> b[o] = y /\ pc[o] \in {"bread", "iderw", "have"}
        BY Zenon DEF IInv, ProcOK, ProcAt
      <3> QED  BY <1>0, <1>1, <3>1, BufAssumption
    <2>2. ASSUME NEW o \in Proc
          PROVE  /\ b[o] = NoBuf <=> pc'[o] \in {"idle", "panic"}
                 /\ b[o] # NoBuf => arg[o] \in Block /\ blockno[b[o]] = arg[o]
                 /\ pc'[o] = "bread" => ~valid[b[o]] /\ b[o] \notin Range(idequeue)
                 /\ pc'[o] = "have" => valid[b[o]] /\ b[o] \notin Range(idequeue)
                 /\ pc'[o] = "iderw" => (valid[b[o]] /\ ~dirty[b[o]] <=> b[o] \notin Range(idequeue))
      <3>1. CASE o = p  BY <1>0, <1>1, <1>u, <3>1 DEF IInv, ProcOK, ProcAt
      <3>2. CASE o # p
        <4>1. pc'[o] = pc[o]  BY <1>1, <3>2, Zenon
        <4> QED  BY <4>1, Zenon DEF IInv, ProcOK, ProcAt
      <3> QED  BY <3>1, <3>2, Zenon
    <2>3. UNCHANGED <<arg, b, blockno, valid, dirty, idequeue>>  BY <1>f
    <2> QED  BY <2>1, <2>2, <2>3, SMT DEF ProcOK, ProcAt
  <1>4. QueueOK' /\ DataOK'
    <2>1. \A o \in Proc : pc[o] = "iderw" => b'[o] = b[o] /\ pc'[o] = "iderw"  BY <1>0, <1>1, <1>f
    <2> QED  BY <1>f, <2>1, WaitersKept, QueueKept, DataKept, Zenon
  <1>5. CountOK'  BY <1>f, CountSame
  <1>6. NoPanic'  BY <1>1 DEF IInv, NoPanic
  <1> QED  BY <1>2, <1>3, <1>4, <1>5, <1>6 DEF IInv

-----------------------------------------------------------------------------
\* Two processes that hold the lock of their buffer have different buffers.
LEMMA OneHolder ==
  ASSUME IInv, NEW p \in Proc, NEW o \in Proc, p # o,
         pc[p] \in {"bread", "iderw", "have"}, pc[o] \in {"bread", "iderw", "have"}
  PROVE  b[p] # b[o] /\ b[p] \in Buf
  <1>1. b[p] \in Buf /\ b[o] \in Buf
    <2>1. b[p] # NoBuf /\ b[o] # NoBuf  BY DEF IInv, ProcOK, ProcAt
    <2> QED  BY <2>1 DEF IInv, TypeOK
  <1>2. holder[b[p]] = p /\ holder[b[o]] = o  BY <1>1 DEF IInv, ProcOK, ProcAt
  <1> QED  BY <1>1, <1>2

\* What iderw() does to the queue, for a buffer that its caller holds and that
\* is not in it.
LEMMA IdeRwFacts ==
  ASSUME IInv, NEW p \in Proc, NEW x \in Buf, x = b[p], blockno[x] \in Block,
         x \notin Range(idequeue),
         NEW d \in [Buf -> BOOLEAN], NEW dat \in [Buf -> Val], ~(valid[x] /\ ~d[x]),
         \A y \in Buf \ {x} : d[y] = dirty[y] /\ dat[y] = data[y],
         IdeRw(p, d, dat)
  PROVE  /\ pc' = [pc EXCEPT ![p] = "iderw"]
         /\ idequeue' \in Seq(Buf) /\ Range(idequeue') = Range(idequeue) \cup {x}
         /\ \A i, j \in DOMAIN idequeue' : idequeue'[i] = idequeue'[j] => i = j
         /\ cmd' \in [block : Block, write : BOOLEAN, data : Val]
         /\ cmd' # NoCmd /\ idequeue' # <<>>
         /\ cmd'.block = blockno[Head(idequeue')]
         /\ cmd'.write = d[Head(idequeue')]
         /\ cmd'.write => cmd'.data = dat[Head(idequeue')]
  <1>1. /\ pc' = [pc EXCEPT ![p] = "iderw"] /\ idequeue' = Append(idequeue, x)
        /\ IF idequeue = <<>> THEN IdeStart(x, d, dat) ELSE cmd' = cmd
    BY DEF IdeRw, GoTo
  <1>2. idequeue \in Seq(Buf) /\ \A i, j \in DOMAIN idequeue : idequeue[i] = idequeue[j] => i = j
    BY DEF IInv, TypeOK, QueueOK
  <1>3. /\ idequeue' \in Seq(Buf) /\ idequeue' # <<>>
        /\ Range(idequeue') = Range(idequeue) \cup {x}
        /\ idequeue # <<>> => Head(idequeue') = Head(idequeue)
        /\ idequeue = <<>> => Head(idequeue') = x
        /\ \A i, j \in DOMAIN idequeue' : idequeue'[i] = idequeue'[j] => i = j
    <2>1. x \in Buf /\ x \notin Range(idequeue)  OBVIOUS
    <2>2. /\ Append(idequeue, x) \in Seq(Buf) /\ Append(idequeue, x) # <<>>
          /\ Range(Append(idequeue, x)) = Range(idequeue) \cup {x}
          /\ idequeue # <<>> => Head(Append(idequeue, x)) = Head(idequeue)
          /\ idequeue = <<>> => Head(Append(idequeue, x)) = x
          /\ \A i, j \in DOMAIN Append(idequeue, x) :
               Append(idequeue, x)[i] = Append(idequeue, x)[j] => i = j
      <3>1. (\A i, j \in DOMAIN idequeue : idequeue[i] = idequeue[j] => i = j) /\ x \notin Range(idequeue)
        BY <1>2, <2>1, Zenon
      <3>2. idequeue \in Seq(Buf)  BY <1>2, Zenon
      <3> HIDE <1>2
      <3> QED  BY <2>1, <3>1, <3>2, QueueAppend
    <2> QED  BY <1>1, <2>2, Zenon
  <1>4. CASE idequeue = <<>>
    <2>1. cmd' = [block |-> blockno[x], write |-> d[x], data |-> dat[x]]
      BY <1>1, <1>4 DEF IdeStart
    <2>2. cmd' \in [block : Block, write : BOOLEAN, data : Val]  BY <2>1
    <2>3. cmd' # NoCmd  BY <2>2, BufAssumption
    <2>4. /\ cmd'.block = blockno[x] /\ cmd'.write = d[x] /\ cmd'.data = dat[x]
          /\ Head(idequeue') = x
      BY <1>3, <1>4, <2>1, Zenon
    <2> QED  BY <1>1, <1>3, <2>2, <2>3, <2>4
  <1>5. CASE idequeue # <<>>
    <2>1. Head(idequeue) \in Range(idequeue) /\ Head(idequeue) \in Buf \ {x}
      BY <1>5, Queued
    <2>2. /\ cmd' = cmd /\ cmd # NoCmd /\ Head(idequeue') = Head(idequeue)
          /\ cmd \in [block : Block, write : BOOLEAN, data : Val]
      BY <1>1, <1>3, <1>5, Zenon DEF IInv, QueueOK, TypeOK
    <2>3. /\ cmd.block = blockno[Head(idequeue)]
          /\ cmd.write = dirty[Head(idequeue)]
          /\ cmd.write => cmd.data = data[Head(idequeue)]
      BY <2>2 DEF IInv, QueueOK
    <2> QED  BY <1>1, <1>3, <2>1, <2>2, <2>3, Zenon
  <1> QED  BY <1>4, <1>5, Zenon

\* bread() of a buffer that is not valid queues it.
LEMMA BreadStep ==
  ASSUME IInv, NEW p \in Proc, Bread(p)
  PROVE  IInv'
  <1> DEFINE x == b[p]
  <1>0. /\ TypeOK /\ x \in Buf /\ x # NoBuf /\ pc[p] = "bread" /\ blockno[x] \in Block
        /\ x \notin Range(idequeue) /\ ~valid[x]
    BY BufAssumption, ZenonT(30) DEF IInv, ProcOK, ProcAt, Bread, TypeOK
  <1>f. UNCHANGED <<disk, blockno, valid, dirty, refcnt, data, holder, mru, arg, b, current>>
    BY DEF Bread, bufs
  <1>i. /\ pc' = [pc EXCEPT ![p] = "iderw"]
        /\ idequeue' \in Seq(Buf) /\ Range(idequeue') = Range(idequeue) \cup {x}
        /\ \A i, j \in DOMAIN idequeue' : idequeue'[i] = idequeue'[j] => i = j
        /\ cmd' \in [block : Block, write : BOOLEAN, data : Val]
        /\ cmd' # NoCmd /\ idequeue' # <<>>
        /\ cmd'.block = blockno[Head(idequeue')]
        /\ cmd'.write = dirty[Head(idequeue')]
        /\ cmd'.write => cmd'.data = data[Head(idequeue')]
    <2>1. dirty \in [Buf -> BOOLEAN] /\ data \in [Buf -> Val] /\ IdeRw(p, dirty, data)
      BY <1>0 DEF TypeOK, Bread
    <2> QED  BY <1>0, <2>1, IdeRwFacts, Zenon
  <1>1. pc'[p] = "iderw" /\ \A o \in Proc \ {p} : pc'[o] = pc[o]
    BY <1>0, <1>i DEF TypeOK
  <1>2. TypeOK'  BY <1>0, <1>i, <1>f, Zenon DEF TypeOK
  <1>3. ProcOK'
    <2>1. \A o \in Proc \ {p} : pc[o] \in {"bread", "iderw", "have"} => b[o] # x
      BY <1>0, OneHolder
    <2>2. ASSUME NEW o \in Proc, NEW y \in Buf
          PROVE  holder[y] = o <=> b[o] = y /\ pc'[o] \in {"bread", "iderw", "have"}
      <3>1. holder[y] = o <=> b[o] = y /\ pc[o] \in {"bread", "iderw", "have"}
        BY Zenon DEF IInv, ProcOK, ProcAt
      <3> QED  BY <1>0, <1>1, <3>1
    <2>3. ASSUME NEW o \in Proc
          PROVE  /\ b[o] = NoBuf <=> pc'[o] \in {"idle", "panic"}
                 /\ b[o] # NoBuf => arg[o] \in Block /\ blockno[b[o]] = arg[o]
                 /\ pc'[o] = "bread" => ~valid[b[o]] /\ b[o] \notin Range(idequeue')
                 /\ pc'[o] = "have" => valid[b[o]] /\ b[o] \notin Range(idequeue')
                 /\ pc'[o] = "iderw" => (valid[b[o]] /\ ~dirty[b[o]] <=> b[o] \notin Range(idequeue'))
      <3>1. CASE o = p  BY <1>0, <1>1, <1>i, <3>1, Zenon DEF IInv, ProcOK, ProcAt
      <3>2. CASE o # p
        <4>1. pc'[o] = pc[o]  BY <1>1, <3>2, Zenon
        <4>2. pc[o] \in {"bread", "iderw", "have"} =>
                (b[o] \in Range(idequeue') <=> b[o] \in Range(idequeue))
          BY <1>i, <2>1, <3>2
        <4> QED  BY <4>1, <4>2 DEF IInv, ProcOK, ProcAt
      <3> QED  BY <3>1, <3>2, Zenon
    <2>4. UNCHANGED <<arg, b, blockno, valid, dirty, holder>>  BY <1>f
    <2>5. ASSUME NEW o \in Proc  PROVE ProcAt(o)'
      <3>1. /\ arg' = arg /\ b' = b /\ blockno' = blockno
            /\ valid' = valid /\ dirty' = dirty /\ holder' = holder
        BY <2>4, Zenon
      <3>2. \A y \in Buf : holder'[y] = o <=> b'[o] = y /\ pc'[o] \in {"bread", "iderw", "have"}
        BY <2>2, <3>1, Zenon
      <3>3. /\ b'[o] = NoBuf <=> pc'[o] \in {"idle", "panic"}
            /\ b'[o] # NoBuf => arg'[o] \in Block /\ blockno'[b'[o]] = arg'[o]
        BY <2>3, <3>1, Zenon
      <3>4. /\ pc'[o] = "bread" => ~valid'[b'[o]] /\ b'[o] \notin Range(idequeue')
            /\ pc'[o] = "have" => valid'[b'[o]] /\ b'[o] \notin Range(idequeue')
            /\ pc'[o] = "iderw" => (valid'[b'[o]] /\ ~dirty'[b'[o]] <=> b'[o] \notin Range(idequeue'))
        BY <2>3, <3>1, Zenon
      <3> QED  BY <3>2, <3>3, <3>4, Zenon DEF ProcAt
    <2> QED  BY <2>5, Zenon DEF ProcOK
  <1>4. QueueOK'
    <2>1. \A y \in Range(idequeue') : \E o \in Proc : b[o] = y /\ pc'[o] = "iderw"
      <3> TAKE y \in Range(idequeue')
      <3>1. CASE y = x  BY <1>1, <3>1
      <3>2. CASE y # x
        <4>1. PICK o \in Proc : b[o] = y /\ pc[o] = "iderw"  BY <1>i, <3>2, Queued, Zenon
        <4>2. o # p  BY <1>0, <4>1
        <4> QED  BY <1>1, <4>1, <4>2, Zenon
      <3> QED  BY <3>1, <3>2
    <2> QED  BY <1>i, <1>f, <2>1 DEF QueueOK
  <1>5. DataOK'  BY <1>f, DataKept
  <1>6. CountOK'
    <2>1. Pinned' \subseteq Pinned /\ Pinned \subseteq Buf  BY <1>i, <1>f DEF Pinned
    <2>2. \A y \in Buf : Users(y)' = Users(y)  BY <1>f DEF Users
    <2>3. Cardinality(Pinned') <= MaxPinned  BY <2>1, PinnedShrinks DEF IInv, CountOK
    <2> QED  BY <1>f, <2>2, <2>3 DEF IInv, CountOK
  <1>7. NoPanic'  BY <1>1, Zenon DEF IInv, NoPanic
  <1> QED  BY <1>2, <1>3, <1>4, <1>5, <1>6, <1>7 DEF IInv

\* What putting v in the buffer of p, for bwrite() or log_write(), does to the
\* contents of the blocks.
LEMMA PutData ==
  ASSUME IInv, NEW p \in Proc, NEW v \in Val, pc[p] = "have",
         data' = [data EXCEPT ![b[p]] = v], current' = [current EXCEPT ![arg[p]] = v],
         dirty' = [dirty EXCEPT ![b[p]] = TRUE], UNCHANGED <<disk, blockno, valid>>
  PROVE  DataOK'
  <1> DEFINE x == b[p]
  <1>0. /\ TypeOK /\ x \in Buf /\ x # NoBuf /\ blockno[x] = arg[p] /\ arg[p] \in Block
        /\ valid[x]
    BY BufAssumption, Zenon DEF IInv, ProcOK, ProcAt, TypeOK
  <1>1. /\ data'[x] = v /\ dirty'[x] = TRUE /\ current'[blockno[x]] = v
        /\ \A y \in Buf \ {x} : data'[y] = data[y] /\ dirty'[y] = dirty[y]
        /\ \A k \in Block \ {blockno[x]} : current'[k] = current[k]
    BY <1>0, Zenon DEF TypeOK
  <1>2. \A y \in Buf \ {x} : blockno[y] \in Block => blockno[y] # blockno[x]
    BY <1>0, BufAssumption DEF IInv, DataOK
  <1>3. \A y \in Buf : dirty'[y] => valid[y]  BY <1>0, <1>1, Zenon DEF IInv, DataOK
  <1>4. \A y \in Buf : valid[y] => blockno[y] \in Block /\ data'[y] = current'[blockno[y]]
    BY <1>0, <1>1, <1>2 DEF IInv, DataOK
  <1>5. \A k \in Block : disk[k] # current'[k] => \E y \in Buf : blockno[y] = k /\ dirty'[y]
    BY <1>0, <1>1 DEF IInv, DataOK
  <1> QED  BY <1>3, <1>4, <1>5 DEF IInv, DataOK

\* bwrite() makes the buffer dirty and queues it.
LEMMA BwriteStep ==
  ASSUME IInv, NEW p \in Proc, NEW v \in Val, Bwrite(p, v)
  PROVE  IInv'
  <1> DEFINE x == b[p]
  <1>0. /\ TypeOK /\ x \in Buf /\ x # NoBuf /\ pc[p] = "have"
        /\ blockno[x] = arg[p] /\ arg[p] \in Block
        /\ x \notin Range(idequeue) /\ valid[x]
    BY BufAssumption, Zenon DEF IInv, ProcOK, ProcAt, Bwrite, TypeOK
  <1>f. /\ data' = [data EXCEPT ![x] = v] /\ current' = [current EXCEPT ![arg[p]] = v]
        /\ dirty' = [dirty EXCEPT ![x] = TRUE]
        /\ UNCHANGED <<disk, blockno, valid, refcnt, holder, mru, arg, b>>
    BY DEF Bwrite
  <1>d. /\ dirty' \in [Buf -> BOOLEAN] /\ data' \in [Buf -> Val] /\ dirty'[x]
        /\ current' \in [Block -> Val]
        /\ \A y \in Buf \ {x} : dirty'[y] = dirty[y] /\ data'[y] = data[y]
    BY <1>0, <1>f DEF TypeOK
  <1>i. /\ pc' = [pc EXCEPT ![p] = "iderw"]
        /\ idequeue' \in Seq(Buf) /\ Range(idequeue') = Range(idequeue) \cup {x}
        /\ \A i, j \in DOMAIN idequeue' : idequeue'[i] = idequeue'[j] => i = j
        /\ cmd' \in [block : Block, write : BOOLEAN, data : Val]
        /\ cmd' # NoCmd /\ idequeue' # <<>>
        /\ cmd'.block = blockno[Head(idequeue')]
        /\ cmd'.write = dirty'[Head(idequeue')]
        /\ cmd'.write => cmd'.data = data'[Head(idequeue')]
    <2>1. IdeRw(p, dirty', data')  BY DEF Bwrite
    <2> QED  BY <1>0, <1>d, <2>1, IdeRwFacts, Zenon
  <1>1. pc'[p] = "iderw" /\ \A o \in Proc \ {p} : pc'[o] = pc[o]
    BY <1>0, <1>i DEF TypeOK
  <1>2. TypeOK'  BY <1>0, <1>i, <1>f, <1>d, Zenon DEF TypeOK
  <1>3. ProcOK'
    <2>1. \A o \in Proc \ {p} : pc[o] \in {"bread", "iderw", "have"} => b[o] # x /\ b[o] \in Buf
      BY <1>0, OneHolder, Zenon
    <2>2. ASSUME NEW o \in Proc  PROVE ProcAt(o)'
      <3>1. /\ arg' = arg /\ b' = b /\ blockno' = blockno /\ valid' = valid /\ holder' = holder
            /\ ProcAt(o)
        BY <1>f, Zenon DEF IInv, ProcOK
      <3>2. CASE o = p
        <4>1. b[o] = x /\ pc[o] = "have" /\ pc'[o] = "iderw" /\ x \in Range(idequeue') /\ dirty'[x]
          BY <1>0, <1>1, <1>f, <1>d, <1>i, <3>2
        <4>2. pc'[o] \in {"bread", "iderw", "have"} /\ pc[o] \in {"bread", "iderw", "have"}
              /\ pc'[o] \notin {"idle", "panic"} /\ pc[o] \notin {"idle", "panic"}
              /\ pc'[o] # "bread" /\ pc'[o] # "have"
          BY <4>1
        <4> QED  BY <3>1, <4>1, <4>2, Zenon DEF ProcAt
      <3>3. CASE o # p
        <4>1. /\ pc'[o] = pc[o]
              /\ pc[o] \in {"bread", "iderw", "have"} =>
                   /\ dirty'[b[o]] = dirty[b[o]]
                   /\ b[o] \in Range(idequeue') <=> b[o] \in Range(idequeue)
          BY <1>1, <1>d, <1>i, <2>1, <3>3, Zenon
        <4> QED  BY <3>1, <4>1, Zenon DEF ProcAt
      <3> QED  BY <3>2, <3>3, Zenon
    <2> QED  BY <2>2, Zenon DEF ProcOK
  <1>4. QueueOK'
    <2>1. \A y \in Range(idequeue') : \E o \in Proc : b[o] = y /\ pc'[o] = "iderw"
      BY <1>0, <1>1, <1>i DEF IInv, QueueOK
    <2> QED  BY <1>i, <1>f, <2>1 DEF QueueOK
  <1>5. DataOK'  BY <1>0, <1>f, PutData, Zenon
  <1>6. CountOK'
    <2>1. Pinned' \subseteq Pinned /\ Pinned \subseteq Buf  BY <1>i, <1>d, Zenon DEF Pinned
    <2>2. \A y \in Buf : Users(y)' = Users(y)  BY <1>f DEF Users
    <2>3. Cardinality(Pinned') <= MaxPinned  BY <2>1, PinnedShrinks DEF IInv, CountOK
    <2> QED  BY <1>f, <2>2, <2>3 DEF IInv, CountOK
  <1>7. NoPanic'  BY <1>1 DEF IInv, NoPanic
  <1> QED  BY <1>2, <1>3, <1>4, <1>5, <1>6, <1>7 DEF IInv

\* A process that gives up the lock of its buffer: releasesleep().
LEMMA Releases ==
  ASSUME IInv, NEW p \in Proc, pc[p] = "have",
         holder' = [holder EXCEPT ![b[p]] = NoProc], pc' = [pc EXCEPT ![p] = "brelse"],
         UNCHANGED <<blockno, valid, idequeue, arg, b>>,
         \A y \in Buf \ {b[p]} : dirty'[y] = dirty[y]
  PROVE  /\ holder' \in [Buf -> Proc \cup {NoProc}]
         /\ pc' \in [Proc -> {"idle", "lock", "bread", "iderw", "have", "brelse", "panic"}]
         /\ ProcOK' /\ NoPanic'
         /\ \A y \in Range(idequeue) : y # b[p] /\ \E o \in Proc : b[o] = y /\ pc'[o] = "iderw"
  <1> DEFINE x == b[p]
  <1>0. TypeOK /\ x \in Buf /\ x # NoBuf /\ x \notin Range(idequeue) /\ holder[x] = p
    <2>1. TypeOK /\ x # NoBuf /\ x \notin Range(idequeue)  BY DEF IInv, ProcOK, ProcAt
    <2>2. x \in Buf  BY <2>1 DEF TypeOK
    <2> QED  BY <2>1, <2>2 DEF IInv, ProcOK, ProcAt
  <1>1. /\ pc'[p] = "brelse" /\ \A o \in Proc \ {p} : pc'[o] = pc[o]
        /\ holder'[x] = NoProc /\ \A y \in Buf \ {x} : holder'[y] = holder[y]
    BY <1>0 DEF TypeOK
  <1>2. ProcOK'
    <2>1. \A o \in Proc \ {p} : pc[o] \in {"bread", "iderw", "have"} => b[o] # x /\ b[o] \in Buf
      BY OneHolder
    <2>2. ASSUME NEW o \in Proc, NEW y \in Buf
          PROVE  holder'[y] = o <=> b[o] = y /\ pc'[o] \in {"bread", "iderw", "have"}
      <3>1. holder[y] = o <=> b[o] = y /\ pc[o] \in {"bread", "iderw", "have"}
        BY DEF IInv, ProcOK, ProcAt
      <3> QED  BY <1>0, <1>1, <2>1, <3>1, BufAssumption
    <2>3. ASSUME NEW o \in Proc  PROVE ProcAt(o)'
      <3>1. /\ arg' = arg /\ b' = b /\ blockno' = blockno /\ valid' = valid /\ idequeue' = idequeue
            /\ ProcAt(o)
        BY Zenon DEF IInv, ProcOK
      <3>h. \A y \in Buf : holder'[y] = o <=> b'[o] = y /\ pc'[o] \in {"bread", "iderw", "have"}
        BY <2>2, <3>1
      <3>2. CASE o = p
        <4>1. /\ b[o] = x /\ pc'[o] = "brelse" /\ pc[o] \in {"bread", "iderw", "have"}
              /\ pc[o] \notin {"idle", "panic"} /\ pc'[o] \notin {"idle", "panic"}
              /\ pc'[o] # "bread" /\ pc'[o] # "have" /\ pc'[o] # "iderw"
          BY <1>1, <3>2
        <4> QED  BY <1>0, <3>1, <3>h, <4>1, Zenon DEF ProcAt
      <3>3. CASE o # p
        <4>1. /\ pc'[o] = pc[o]
              /\ pc[o] \in {"bread", "iderw", "have"} => dirty'[b[o]] = dirty[b[o]]
          BY <1>1, <2>1, <3>3, Zenon
        <4> QED  BY <3>1, <3>h, <4>1, Zenon DEF ProcAt
      <3> QED  BY <3>2, <3>3, Zenon
    <2> QED  BY <2>3, Zenon DEF ProcOK
  <1>3. NoPanic'  BY <1>1 DEF IInv, NoPanic
  <1>4. \A y \in Range(idequeue) : y # x /\ \E o \in Proc : b[o] = y /\ pc'[o] = "iderw"
    BY <1>0, <1>1 DEF IInv, QueueOK
  <1> QED  BY <1>0, <1>2, <1>3, <1>4, Zenon DEF TypeOK

\* brelse() gives up the lock.
LEMMA BrelseStep ==
  ASSUME IInv, NEW p \in Proc, Brelse(p)
  PROVE  IInv'
  <1>f. /\ pc[p] = "have" /\ holder' = [holder EXCEPT ![b[p]] = NoProc]
        /\ pc' = [pc EXCEPT ![p] = "brelse"]
        /\ UNCHANGED <<disk, blockno, valid, dirty, refcnt, data, mru, idequeue, cmd, arg, b, current>>
    BY DEF Brelse, GoTo, bufs
  <1>1. /\ holder' \in [Buf -> Proc \cup {NoProc}]
        /\ pc' \in [Proc -> {"idle", "lock", "bread", "iderw", "have", "brelse", "panic"}]
        /\ ProcOK' /\ NoPanic'
        /\ \A y \in Range(idequeue) : \E o \in Proc : b[o] = y /\ pc'[o] = "iderw"
    BY <1>f, Releases, Zenon
  <1>2. TypeOK'  BY <1>f, <1>1, Zenon DEF IInv, TypeOK
  <1>3. QueueOK' /\ DataOK'  BY <1>f, <1>1, QueueKept, DataKept
  <1>4. CountOK'  BY <1>f, CountSame
  <1> QED  BY <1>1, <1>2, <1>3, <1>4 DEF IInv

\* log_write() pins the buffer if it is not pinned yet.
LEMMA LogWriteStep ==
  ASSUME IInv, NEW p \in Proc, NEW v \in Val, LogWrite(p, v)
  PROVE  IInv'
  <1> DEFINE x == b[p]
  <1>0. TypeOK /\ x \in Buf /\ x # NoBuf /\ pc[p] = "have" /\ x \notin Range(idequeue)
    BY BufAssumption, Zenon DEF IInv, ProcOK, ProcAt, LogWrite, TypeOK
  <1>f. /\ data' = [data EXCEPT ![x] = v] /\ current' = [current EXCEPT ![arg[p]] = v]
        /\ dirty' = [dirty EXCEPT ![x] = TRUE]
        /\ holder' = [holder EXCEPT ![x] = NoProc] /\ pc' = [pc EXCEPT ![p] = "brelse"]
        /\ dirty[x] \/ Cardinality(Pinned) < MaxPinned
        /\ UNCHANGED <<disk, blockno, valid, refcnt, mru, idequeue, cmd, arg, b>>
    BY Zenon DEF LogWrite, GoTo
  <1>d. /\ dirty' \in [Buf -> BOOLEAN] /\ data' \in [Buf -> Val] /\ dirty'[x]
        /\ current' \in [Block -> Val]
        /\ \A y \in Buf \ {x} : dirty'[y] = dirty[y] /\ data'[y] = data[y]
    BY <1>0, <1>f, Zenon DEF TypeOK
  <1>1. /\ holder' \in [Buf -> Proc \cup {NoProc}]
        /\ pc' \in [Proc -> {"idle", "lock", "bread", "iderw", "have", "brelse", "panic"}]
        /\ ProcOK' /\ NoPanic'
        /\ \A y \in Range(idequeue) : y # x /\ \E o \in Proc : b[o] = y /\ pc'[o] = "iderw"
    BY <1>0, <1>f, <1>d, Releases, Zenon
  <1>2. TypeOK'  BY <1>0, <1>f, <1>d, <1>1, Zenon DEF TypeOK
  <1>3. QueueOK'
    <2>1. cmd # NoCmd => Head(idequeue) \in Buf \ {x}
      BY <1>0, Queued, Zenon DEF IInv, QueueOK
    <2>2. cmd # NoCmd =>
            /\ cmd.block = blockno[Head(idequeue)]
            /\ cmd.write = dirty'[Head(idequeue)]
            /\ cmd.write => cmd.data = data'[Head(idequeue)]
      BY <1>d, <2>1, Zenon DEF IInv, QueueOK
    <2> QED  BY <1>f, <1>1, <2>2, Zenon DEF IInv, QueueOK
  <1>4. DataOK'  BY <1>0, <1>f, PutData, Zenon
  <1>5. CountOK'
    <2>1. Pinned' = Pinned \cup {x} /\ Pinned \subseteq Buf  BY <1>0, <1>f, <1>d DEF Pinned
    <2>2. dirty[x] => x \in Pinned  BY <1>0 DEF Pinned
    <2>3. IsFiniteSet(Pinned) /\ Cardinality(Pinned) \in Nat  BY <2>1, BufsFinite
    <2>4. Cardinality(Pinned \cup {x})
            = IF x \in Pinned THEN Cardinality(Pinned) ELSE Cardinality(Pinned) + 1
      BY <2>3, FS_AddElement, Zenon
    <2>5. Cardinality(Pinned) <= MaxPinned  BY Zenon DEF IInv, CountOK
    <2>6. Cardinality(Pinned') <= MaxPinned
      <3>1. CASE x \in Pinned  BY <2>1, <2>4, <2>5, <3>1, Zenon
      <3>2. CASE x \notin Pinned
        <4>1. PICK c : c = Cardinality(Pinned)  BY Zenon
        <4>2. Cardinality(Pinned') = c + 1 /\ c < MaxPinned /\ c \in Nat
          BY <1>f, <2>1, <2>2, <2>3, <2>4, <3>2, <4>1, Zenon
        <4>3. c + 1 <= MaxPinned  BY <4>2, BufAssumption
        <4> QED  BY <4>2, <4>3, Zenon
      <3> QED  BY <3>1, <3>2, Zenon
    <2>7. \A y \in Buf : Users(y)' = Users(y)  BY <1>f DEF Users
    <2> QED  BY <1>f, <2>6, <2>7, Zenon DEF IInv, CountOK
  <1> QED  BY <1>1, <1>2, <1>3, <1>4, <1>5 DEF IInv

\* ideintr(): the first buffer of the queue gets what the disk has read, or the
\* disk what the buffer has; the next command is that of the next buffer.
LEMMA IdeIntrStep ==
  ASSUME IInv, IdeIntr
  PROVE  IInv'
  <1> DEFINE q == idequeue
             t == Tail(idequeue)
             x == Head(idequeue)
             k == blockno[x]
  <1>0. TypeOK /\ cmd # NoCmd /\ q # <<>> /\ q \in Seq(Buf)
    BY Zenon DEF IInv, QueueOK, TypeOK, IdeIntr
  <1>t. /\ x \in Buf /\ t \in Seq(Buf) /\ Range(q) = Range(t) \cup {x} /\ x \notin Range(t)
        /\ \A i, j \in DOMAIN t : t[i] = t[j] => i = j
        /\ t # <<>> => t[1] = Head(t) /\ t[1] \in Range(t)
    BY <1>0, QueueTail, Zenon DEF IInv, QueueOK
  <1>c. cmd.block = k /\ cmd.write = dirty[x] /\ (cmd.write => cmd.data = data[x])
    BY <1>0, Zenon DEF IInv, QueueOK
  <1>b. \A y \in Range(q) : y \in Buf /\ blockno[y] \in Block
    <2> SUFFICES ASSUME NEW y \in Range(q)  PROVE y \in Buf /\ blockno[y] \in Block  OBVIOUS
    <2>1. PICK o \in Proc : b[o] = y /\ pc[o] = "iderw"  BY Queued
    <2> QED  BY <2>1, Queued DEF IInv, ProcOK, ProcAt
  <1>k. k \in Block  BY <1>b, <1>t
  <1>f. /\ disk' = IF dirty[x] THEN [disk EXCEPT ![k] = data[x]] ELSE disk
        /\ data' = IF dirty[x] THEN data ELSE [data EXCEPT ![x] = disk[k]]
        /\ valid' = [valid EXCEPT ![x] = TRUE] /\ dirty' = [dirty EXCEPT ![x] = FALSE]
        /\ idequeue' = t /\ NextCmd(t, dirty')
        /\ UNCHANGED <<blockno, refcnt, holder, mru, pc, arg, b, current>>
    BY <1>c, Zenon DEF IdeIntr
  <1> HIDE DEF t, x, k
  <1>d. /\ disk' \in [Block -> Val] /\ data' \in [Buf -> Val]
        /\ valid' \in [Buf -> BOOLEAN] /\ dirty' \in [Buf -> BOOLEAN]
        /\ valid'[x] /\ ~dirty'[x]
        /\ \A y \in Buf \ {x} : data'[y] = data[y] /\ dirty'[y] = dirty[y] /\ valid'[y] = valid[y]
    BY <1>0, <1>t, <1>k, <1>f DEF TypeOK
  <1>1. /\ cmd' = NoCmd <=> t = <<>>
        /\ cmd' \in [block : Block, write : BOOLEAN, data : Val] \cup {NoCmd}
        /\ cmd' # NoCmd => /\ cmd'.block = blockno[Head(t)] /\ cmd'.write = dirty'[Head(t)]
                           /\ cmd'.data = data'[Head(t)]
    <2>1. CASE t = <<>>  BY <1>f, <2>1 DEF NextCmd
    <2>2. CASE t # <<>>
      <3>1. Head(t) \in Buf \ {x} /\ blockno[Head(t)] \in Block  BY <1>b, <1>t, <2>2
      <3>2. cmd' = [block |-> blockno[Head(t)], write |-> dirty'[Head(t)], data |-> data[Head(t)]]
        BY <1>f, <1>t, <2>2, ZenonT(30) DEF NextCmd, IdeStart
      <3>3. data[Head(t)] = data'[Head(t)] /\ data[Head(t)] \in Val /\ dirty'[Head(t)] \in BOOLEAN
        BY <1>0, <1>d, <3>1 DEF TypeOK
      <3>4. cmd' \in [block : Block, write : BOOLEAN, data : Val]  BY <3>1, <3>2, <3>3, Zenon
      <3>5. cmd' # NoCmd  BY <3>4, BufAssumption
      <3>6. /\ cmd'.block = blockno[Head(t)] /\ cmd'.write = dirty'[Head(t)]
            /\ cmd'.data = data[Head(t)]
        BY <3>2, Zenon
      <3> QED  BY <2>2, <3>3, <3>4, <3>5, <3>6
    <2> QED  BY <2>1, <2>2
  <1>2. TypeOK'  BY <1>0, <1>t, <1>f, <1>d, <1>1, Zenon DEF TypeOK
  <1>3. ProcOK'
    <2>1. ASSUME NEW o \in Proc
          PROVE  /\ pc[o] = "bread" => ~valid'[b[o]] /\ b[o] \notin Range(t)
                 /\ pc[o] = "have" => valid'[b[o]] /\ b[o] \notin Range(t)
                 /\ pc[o] = "iderw" => (valid'[b[o]] /\ ~dirty'[b[o]] <=> b[o] \notin Range(t))
      <3>1. pc[o] \in {"bread", "have", "iderw"} => b[o] \in Buf
        BY <1>0, Zenon DEF IInv, ProcOK, ProcAt, TypeOK
      <3>2. /\ pc[o] = "bread" => ~valid[b[o]] /\ b[o] \notin Range(q)
            /\ pc[o] = "have" => valid[b[o]] /\ b[o] \notin Range(q)
            /\ pc[o] = "iderw" => (valid[b[o]] /\ ~dirty[b[o]] <=> b[o] \notin Range(q))
        BY Zenon DEF IInv, ProcOK, ProcAt
      <3>3. CASE b[o] = x  BY <1>t, <1>d, <3>2, <3>3, Zenon
      <3>4. CASE b[o] # x
        <4>1. pc[o] \in {"bread", "have", "iderw"} =>
                /\ valid'[b[o]] = valid[b[o]] /\ dirty'[b[o]] = dirty[b[o]]
                /\ b[o] \in Range(t) <=> b[o] \in Range(q)
          BY <1>t, <1>d, <3>1, <3>4, Zenon
        <4> QED  BY <3>2, <4>1, Zenon
      <3> QED  BY <3>3, <3>4, ZenonT(30)
    <2> QED  BY <1>f, <2>1 DEF IInv, ProcOK, ProcAt
  <1>4. QueueOK'
    <2>1. \A y \in Range(t) : \E o \in Proc : b[o] = y /\ pc[o] = "iderw"
      BY <1>t, Zenon DEF IInv, QueueOK
    <2> QED  BY <1>1, <1>f, <1>t, <2>1, Zenon DEF QueueOK
  <1>5. DataOK'
    <2>1. \A y \in Buf \ {x} : blockno[y] # k
      BY <1>k, <1>t, BufAssumption DEF IInv, DataOK, k
    <2>2. dirty[x] => data[x] = current[k]  BY <1>t DEF IInv, DataOK, k
    <2>3. ~dirty[x] => disk[k] = current[k]  BY <1>k, <2>1 DEF IInv, DataOK
    <2>4. disk'[k] = current[k] /\ \A l \in Block \ {k} : disk'[l] = disk[l]
      BY <1>0, <1>f, <1>k, <2>2, <2>3, Zenon DEF TypeOK
    <2>5. data'[x] = current[k]  BY <1>0, <1>f, <1>t, <2>2, <2>3, Zenon DEF TypeOK
    <2>6. \A y \in Buf : dirty'[y] => valid'[y]  BY <1>d, Zenon DEF IInv, DataOK
    <2>7. \A y \in Buf : valid'[y] => blockno[y] \in Block /\ data'[y] = current[blockno[y]]
      BY <1>d, <1>k, <2>5 DEF IInv, DataOK, k
    <2>8. ASSUME NEW l \in Block, disk'[l] # current[l]
          PROVE  \E y \in Buf : blockno[y] = l /\ dirty'[y]
      <3>1. l # k /\ disk[l] # current[l]  BY <2>4, <2>8
      <3>2. PICK y \in Buf : blockno[y] = l /\ dirty[y]  BY <3>1 DEF IInv, DataOK
      <3>3. y # x  BY <3>1, <3>2 DEF k
      <3> QED  BY <1>d, <3>2, <3>3
    <2> QED  BY <1>f, <2>6, <2>7, <2>8 DEF IInv, DataOK
  <1>6. CountOK'
    <2>1. Pinned' \subseteq Pinned /\ Pinned \subseteq Buf  BY <1>t, <1>f, <1>d DEF Pinned
    <2>2. \A y \in Buf : Users(y)' = Users(y)  BY <1>f DEF Users
    <2>3. Cardinality(Pinned') <= MaxPinned  BY <2>1, PinnedShrinks DEF IInv, CountOK
    <2> QED  BY <1>f, <2>2, <2>3 DEF IInv, CountOK
  <1>7. NoPanic'  BY <1>f DEF IInv, NoPanic
  <1> QED  BY <1>2, <1>3, <1>4, <1>5, <1>6, <1>7, Zenon DEF IInv

\* iderw() returns: the driver is done with the buffer.
LEMMA IdeDoneStep ==
  ASSUME IInv, NEW p \in Proc, IdeDone(p)
  PROVE  IInv'
  <1>f. /\ pc[p] = "iderw" /\ valid[b[p]] /\ ~dirty[b[p]] /\ pc' = [pc EXCEPT ![p] = "have"]
        /\ UNCHANGED <<disk, blockno, valid, dirty, refcnt, data, holder, mru, idequeue, cmd, arg, b, current>>
    BY Zenon DEF IdeDone, GoTo, bufs
  <1>0. TypeOK /\ b[p] \notin Range(idequeue)  BY <1>f DEF IInv, ProcOK, ProcAt
  <1>1. pc'[p] = "have" /\ \A o \in Proc \ {p} : pc'[o] = pc[o]  BY <1>0, <1>f, Zenon DEF TypeOK
  <1>2. TypeOK'  BY <1>0, <1>f, Zenon DEF TypeOK
  <1>3. ProcOK'
    <2>1. ASSUME NEW o \in Proc  PROVE ProcAt(o)'
      <3>1. CASE o # p
        <4>1. b'[o] = b[o] /\ pc'[o] = pc[o] /\ arg'[o] = arg[o]  BY <1>1, <1>f, <3>1, Zenon
        <4>2. UNCHANGED <<blockno, valid, dirty, holder, idequeue>>  BY <1>f, Zenon
        <4> QED  BY <4>1, <4>2, ProcKept, Zenon
      <3>2. CASE o = p
        <4>1. /\ arg' = arg /\ b' = b /\ blockno' = blockno /\ holder' = holder
              /\ valid' = valid /\ dirty' = dirty /\ idequeue' = idequeue /\ ProcAt(o)
          BY <1>f, Zenon DEF IInv, ProcOK
        <4>2. /\ pc[o] \in {"bread", "iderw", "have"} /\ pc'[o] \in {"bread", "iderw", "have"}
              /\ pc[o] \notin {"idle", "panic"} /\ pc'[o] \notin {"idle", "panic"}
              /\ pc'[o] # "bread" /\ pc'[o] # "iderw"
          BY <1>1, <1>f, <3>2
        <4> QED  BY <1>0, <1>f, <3>2, <4>1, <4>2, Zenon DEF ProcAt
      <3> QED  BY <3>1, <3>2, Zenon
    <2> QED  BY <2>1, Zenon DEF ProcOK
  <1>4. QueueOK'
    <2>1. \A y \in Range(idequeue) : \E o \in Proc : b[o] = y /\ pc'[o] = "iderw"
      <3> SUFFICES ASSUME NEW y \in Range(idequeue)
                   PROVE  \E o \in Proc : b[o] = y /\ pc'[o] = "iderw"
        BY Zenon
      <3>1. PICK o \in Proc : b[o] = y /\ pc[o] = "iderw"  BY Zenon DEF IInv, QueueOK
      <3>2. o # p  BY <1>0, <3>1, Zenon
      <3> QED  BY <1>1, <3>1, <3>2, Zenon
    <2> QED  BY <1>f, <2>1, QueueKept, Zenon
  <1>5. DataOK'  BY <1>f, DataKept, Zenon
  <1>6. CountOK'  BY <1>f, CountSame, Zenon
  <1>7. NoPanic'  BY <1>1 DEF IInv, NoPanic
  <1> QED  BY <1>2, <1>3, <1>4, <1>5, <1>6, <1>7 DEF IInv

\* brelse() drops the reference, and puts a buffer that nobody has any more at the
\* head of the list.
LEMMA BrelseListStep ==
  ASSUME IInv, NEW p \in Proc, BrelseList(p)
  PROVE  IInv'
  <1>x. TypeOK /\ b[p] \in Buf /\ b[p] # NoBuf
    <2>1. TypeOK /\ b[p] # NoBuf  BY DEF IInv, ProcOK, ProcAt, BrelseList
    <2> QED  BY <2>1, Zenon DEF TypeOK
  <1>p. PICK x \in Buf : x = b[p]  BY <1>x
  <1>f. /\ pc[p] = "brelse" /\ refcnt' = [refcnt EXCEPT ![x] = refcnt[x] - 1]
        /\ mru' = IF refcnt[x] - 1 = 0 THEN ToHead(x) ELSE mru
        /\ b' = [b EXCEPT ![p] = NoBuf] /\ arg' = [arg EXCEPT ![p] = NoBlock]
        /\ pc' = [pc EXCEPT ![p] = "idle"]
        /\ UNCHANGED <<disk, blockno, valid, dirty, data, holder, idequeue, cmd, current>>
    BY <1>p DEF BrelseList, Drop, GoTo
  <1>0. TypeOK /\ x \in Buf /\ x # NoBuf /\ b[p] = x  BY <1>x, <1>p, Zenon
  <1>1. /\ b'[p] = NoBuf /\ pc'[p] = "idle"
        /\ \A o \in Proc \ {p} : b'[o] = b[o] /\ pc'[o] = pc[o] /\ arg'[o] = arg[o]
    BY <1>0, <1>f, Zenon DEF TypeOK
  <1>2. IsFiniteSet(Users(x)) /\ p \in Users(x) /\ refcnt[x] = Cardinality(Users(x))
    <2>1. p \in Users(x)  BY <1>0, Zenon DEF Users
    <2>2. Users(x) \in SUBSET Proc  BY Zenon DEF Users
    <2>3. IsFiniteSet(Users(x))  BY <2>2, UsersFinite, Zenon
    <2> QED  BY <1>0, <2>1, <2>3, Zenon DEF IInv, CountOK
  <1>3. Users(x)' = Users(x) \ {p}  BY <1>0, <1>1 DEF Users
  <1>4. refcnt[x] - 1 = Cardinality(Users(x)') /\ Cardinality(Users(x)') \in Nat
    <2>1. Cardinality(Users(x) \ {p}) = Cardinality(Users(x)) - 1  BY <1>2, FS_RemoveElement, Zenon
    <2>2. Users(x) \ {p} \in SUBSET Proc  BY DEF Users
    <2>3. Cardinality(Users(x) \ {p}) \in Nat  BY <2>2, UsersFinite
    <2> QED  BY <1>2, <1>3, <2>1, <2>3
  <1>5. /\ refcnt' \in [Buf -> Nat] /\ refcnt'[x] = refcnt[x] - 1
        /\ \A y \in Buf \ {x} : refcnt'[y] = refcnt[y]
    BY <1>0, <1>f, <1>4 DEF TypeOK
  <1>6. mru' \in [1..Len(mru') -> Buf] /\ Range(mru') = Buf /\ IsInjective(mru')
    <2>1. CASE refcnt[x] - 1 = 0  BY <1>0, <1>f, <2>1, MoveToFront, Zenon
    <2>2. CASE refcnt[x] - 1 # 0  BY <1>0, <1>f, <2>2 DEF TypeOK
    <2> QED  BY <2>1, <2>2
  <1>7. TypeOK'
    <2>1. /\ pc' \in [Proc -> {"idle", "lock", "bread", "iderw", "have", "brelse", "panic"}]
          /\ arg' \in [Proc -> Block \cup {NoBlock}] /\ b' \in [Proc -> Buf \cup {NoBuf}]
      BY <1>0, <1>f DEF TypeOK
    <2> QED  BY <1>0, <1>f, <1>5, <1>6, <2>1, Zenon DEF TypeOK
  <1>8. ProcOK'
    <2>1. \A y \in Buf : holder[y] # p  BY <1>f, Zenon DEF IInv, ProcOK, ProcAt
    <2>2. \A y \in Buf : y # NoBuf  BY BufAssumption, Zenon
    <2>3. ASSUME NEW o \in Proc, o # p  PROVE ProcAt(o)'
      <3>1. UNCHANGED <<blockno, holder, valid, dirty, idequeue>>  BY <1>f
      <3>2. b'[o] = b[o] /\ pc'[o] = pc[o] /\ arg'[o] = arg[o]  BY <1>1, <2>3, Zenon
      <3> QED  BY <3>1, <3>2, ProcKept
    <2>4. ProcAt(p)'
      <3>1. \A y \in Buf : holder'[y] # p  BY <1>f, <2>1
      <3> QED  BY <1>1, <2>2, <3>1, Zenon DEF ProcAt
    <2> QED  BY <2>3, <2>4, Zenon DEF ProcOK
  <1>9. QueueOK'
    <2>1. \A y \in Range(idequeue) : \E o \in Proc : b'[o] = y /\ pc'[o] = "iderw"
      <3> TAKE y \in Range(idequeue)
      <3>1. PICK o \in Proc : b[o] = y /\ pc[o] = "iderw"  BY Queued
      <3>2. o # p  BY <1>f, <3>1
      <3> QED  BY <1>1, <3>1, <3>2, Zenon
    <2> QED  BY <1>f, <2>1, QueueKept
  <1>10. DataOK'  BY <1>f, DataKept
  <1>11. CountOK'
    <2>1. Pinned' = Pinned  BY <1>f, Zenon DEF Pinned
    <2>2. \A y \in Buf : y # NoBuf  BY BufAssumption
    <2>3. ASSUME NEW y \in Buf \ {x}  PROVE \A o \in Proc : b'[o] = y <=> b[o] = y
      BY <1>0, <1>1, <2>2, ZenonT(30)
    <2>4. \A y \in Buf \ {x} : Users(y)' = Users(y)  BY <2>3 DEF Users
    <2> QED  BY <1>4, <1>5, <2>1, <2>4 DEF IInv, CountOK
  <1>12. NoPanic'  BY <1>1 DEF IInv, NoPanic
  <1> QED  BY <1>7, <1>8, <1>9, <1>10, <1>11, <1>12, Zenon DEF IInv

\* Every step of the cache and of the driver keeps the invariant.
LEMMA NextIInv ==
  ASSUME IInv, [Next]_vars
  PROVE  IInv'
  <1>1. CASE UNCHANGED vars
    <2>1. UNCHANGED <<disk, blockno, valid, dirty, refcnt, data, holder, mru, idequeue, cmd, pc, arg, b, current>>
      BY <1>1, Zenon DEF vars, bufs
    <2>2. TypeOK'  BY <2>1, Zenon DEF IInv, TypeOK
    <2>6. ProcOK'  BY <2>1, ProcKept DEF IInv, ProcOK
    <2>3. QueueOK' /\ DataOK'
      <3>1. \A x \in Range(idequeue) : \E o \in Proc : b'[o] = x /\ pc'[o] = "iderw"
        BY <2>1, WaitersKept, Zenon
      <3>2. QueueOK'  BY <2>1, <3>1, QueueKept
      <3>3. DataOK'  BY <2>1, DataKept, Zenon
      <3> QED  BY <3>2, <3>3, Zenon
    <2>5. NoPanic'  BY <2>1 DEF IInv, NoPanic
    <2>4. CountOK'  BY <2>1, CountSame
    <2> QED  BY <2>2, <2>3, <2>4, <2>5, <2>6, Zenon DEF IInv
  <1>2. CASE Next
    <2>1. ASSUME NEW p \in Proc, Step(p)  PROVE IInv'
      BY <2>1, BgetLockStep, BreadStep, IdeDoneStep, BrelseListStep, Zenon DEF Step
    <2>2. ASSUME NEW p \in Proc, Brelse(p)  PROVE IInv'  BY <2>2, BrelseStep, Zenon
    <2>3. ASSUME NEW p \in Proc, NEW k \in Block, Bget(p, k)  PROVE IInv'
      BY <2>3, BgetStep, Zenon
    <2>4. ASSUME NEW p \in Proc, NEW v \in Val, Bwrite(p, v) \/ LogWrite(p, v)  PROVE IInv'
      BY <2>4, BwriteStep, LogWriteStep, Zenon
    <2> QED  BY <1>2, <2>1, <2>2, <2>3, <2>4, IdeIntrStep, Zenon DEF Next
  <1> QED  BY <1>1, <1>2

\* The invariant of the cache: references, locks, the queue and the contents of
\* buffers and disk agree.
THEOREM SpecIInv == Spec => []IInv
  <1>1. Init => IInv  BY InitIInv
  <1>2. IInv /\ [Next]_vars => IInv'  BY NextIInv
  <1> QED  BY <1>1, <1>2, PTL DEF Spec

\* For every number of processes, blocks and buffers: bread() returns what was
\* last put in the block, a block has one buffer, bget() does not panic while the
\* log keeps to its share, and no request to the disk is forgotten.
THEOREM SpecCacheSound == Spec => []CacheSound
  <1>1. IInv => CacheSound
    <2> SUFFICES ASSUME IInv  PROVE CacheSound  OBVIOUS
    <2>1. TypeOK /\ NoPanic  BY DEF IInv
    <2>2. ReadsLatest
      <3> SUFFICES ASSUME NEW p \in Proc, pc[p] = "have"  PROVE data[b[p]] = current[arg[p]]
        BY Zenon DEF ReadsLatest
      <3>1. b[p] # NoBuf /\ valid[b[p]]  BY Zenon DEF IInv, ProcOK, ProcAt
      <3>2. b[p] \in Buf /\ blockno[b[p]] = arg[p]  BY <3>1 DEF IInv, ProcOK, ProcAt, TypeOK
      <3> QED  BY <3>1, <3>2, Zenon DEF IInv, DataOK
    <2>3. BuffersStay  BY Zenon DEF IInv, ProcOK, ProcAt, DataOK, BuffersStay
    <2>4. RequestsServed  BY Zenon DEF IInv, ProcOK, ProcAt, QueueOK, RequestsServed
    <2> QED  BY <2>1, <2>2, <2>3, <2>4 DEF CacheSound
  <1> QED  BY <1>1, SpecIInv, PTL
=============================================================================
