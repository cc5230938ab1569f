------------------------------- MODULE LogInv -------------------------------
(***************************************************************************)
(* The inductive invariant of Log: what the disk, the log and the cache have *)
(* to do with each other at each step of a commit and of a recovery, for all *)
(* processes, blocks, contents and sizes of the log.  Recovery, begin_op(), *)
(* log_write() and end_op() keep it.                                       *)
(***************************************************************************)
EXTENDS Log, FiniteSetTheorems, TLAPS

Commits(p) == pc[p] \in {"write_log", "install", "done"}

Distinct(s) == \A i, j \in 1..Len(s) : s[i] = s[j] => i = j

\* outstanding counts the operations under way; there is one committer at most,
\* and none while an operation is under way.
ProcOK ==
  /\ outstanding = Cardinality(Active)
  /\ committing => Active = {}
  /\ \A p \in Proc : Commits(p) => committing
  /\ \A p, q \in Proc : Commits(p) /\ Commits(q) => p = q
  /\ \A p \in Proc : pc[p] \in {"check", "append"} => buf[p] \in Block
  /\ \A p \in Proc : buf[p] # NoBlock => pc[p] \in {"check", "append", "panic"}
  /\ boot # "up" => \A p \in Proc : pc[p] = "idle"

\* A cached block that differs from its home is in the log and dirty, or is
\* just being changed.
CacheOK ==
  /\ boot # "up" => dirty = {}
  /\ dirty \subseteq Blocks(lh)
  /\ \A b \in dirty : cache[b] \in Val
  /\ \A p \in Proc : buf[p] # NoBlock => cache[buf[p]] \in Val
  /\ \A b \in Block : \/ cache[b] \in {NoData, home[b]}
                      \/ b \in dirty
                      \/ \E p \in Proc : buf[p] = b

\* The first n blocks of the log are at home.
Installed(n) == \A i \in 1..n : home[lh[i]] = logblk[i]

\* recover_from_log() and the steps of commit().
LogOK ==
  /\ Distinct(lh) /\ Distinct(head)
  /\ boot = "install" => lh = head /\ tail <= Len(lh) /\ Installed(tail)
  /\ boot = "up" /\ (\A p \in Proc : pc[p] # "install") =>
       head = <<>> /\ \A i \in 1..Len(lh) : lh[i] \in dirty
  /\ boot = "up" /\ outstanding = 0 /\ ~committing => lh = <<>>
  /\ \A p \in Proc : pc[p] = "write_log" =>
       tail <= Len(lh) /\ \A i \in 1..tail : logblk[i] = cache[lh[i]]
  /\ \A p \in Proc : pc[p] = "install" =>
       /\ head = lh /\ tail <= Len(lh) /\ Installed(tail)
       /\ \A i \in 1..tail : cache[lh[i]] \in {NoData, logblk[i]}
       /\ \A i \in tail+1..Len(lh) : lh[i] \in dirty /\ logblk[i] = cache[lh[i]]
       /\ \A b \in dirty : \E i \in tail+1..Len(lh) : lh[i] = b
  /\ \A p \in Proc : pc[p] = "done" => lh = <<>>

IInv == TypeOK /\ ProcOK /\ CacheOK /\ LogOK

-----------------------------------------------------------------------------
\* The processes inside an operation are finitely many.
LEMMA ActiveFinite == IsFiniteSet(Active) /\ Cardinality(Active) \in Nat
  <1>1. Active \in SUBSET Proc  BY DEF Active
  <1>2. IsFiniteSet(Active)  BY <1>1, FS_Subset, LogAssumption DEF LogAssumption
  <1> QED  BY <1>2, FS_CardinalityType

\* When outstanding is 1, the process at end_op() is alone.
LEMMA LastOne ==
  ASSUME NEW p \in Active
  PROVE  /\ Cardinality(Active) # 0
         /\ Cardinality(Active \ {p}) = Cardinality(Active) - 1
         /\ Cardinality(Active) = 1 => Active = {p}
  <1>1. IsFiniteSet(Active \ {p}) /\ Cardinality(Active \ {p}) = Cardinality(Active) - 1
    BY ActiveFinite, FS_RemoveElement
  <1>2. Cardinality(Active) # 0  BY ActiveFinite, FS_EmptySet
  <1>3. ASSUME Cardinality(Active) = 1 PROVE Active = {p}
    <2>1. Cardinality(Active \ {p}) = 0  BY <1>1, <1>3
    <2>2. Active \ {p} = {}  BY <2>1, <1>1, FS_EmptySet
    <2> QED  BY <2>2
  <1> QED  BY <1>1, <1>2, <1>3

\* A log without repetitions has a slot for each of its blocks.
LEMMA SlotExists ==
  ASSUME NEW s \in Seq(Block), Distinct(s), NEW i \in 1..Len(s)
  PROVE  i \in Slot
  <1>1. IsFiniteSet(1..Len(s)) /\ Cardinality(1..Len(s)) = Len(s)
    <2>1. Len(s) \in Int /\ 1 \in Int /\ ~(1 > Len(s)) /\ Len(s) - 1 + 1 = Len(s)  OBVIOUS
    <2> QED  BY <2>1, FS_Interval
  <1>2. IsFiniteSet(Block) /\ Cardinality(Block) \in Nat
    BY FS_CardinalityType, LogAssumption DEF LogAssumption
  <1>3. s \in [1..Len(s) -> Block]  OBVIOUS
  <1>4. ~(Cardinality(Block) < Cardinality(1..Len(s)))
    <2> SUFFICES ASSUME Cardinality(Block) < Cardinality(1..Len(s)) PROVE FALSE
      OBVIOUS
    <2>1. \E x, y \in 1..Len(s) : x # y /\ s[x] = s[y]
      BY <1>1, <1>2, <1>3, FS_PigeonHole
    <2> QED  BY <2>1 DEF Distinct
  <1> QED  BY <1>1, <1>2, <1>4 DEF Slot

-----------------------------------------------------------------------------
\* The invariant holds at boot.
LEMMA InitIInv == Init => IInv
  <1> SUFFICES ASSUME Init PROVE IInv  OBVIOUS
  <1> USE LogAssumption DEF Init
  <1>0. <<>> \in Seq(Block)  OBVIOUS
  <1>1. TypeOK
    <2>1. /\ pc \in [Proc -> {"idle", "begin", "sleep", "op", "check", "append",
                             "write_log", "install", "done", "panic"}]
          /\ boot \in {"read_head", "install", "up"}
      OBVIOUS
    <2>2. /\ cache \in [Block -> Val \cup {NoData}]
          /\ buf \in [Proc -> Block \cup {NoBlock}]
          /\ wrote \in [Proc -> SUBSET Block]
      OBVIOUS
    <2> QED  BY <1>0, <2>1, <2>2, ZenonT(30) DEF TypeOK
  <1>2. Active = {}  BY DEF Active
  <1>3. ProcOK  BY <1>2, FS_EmptySet DEF ProcOK, Commits, LogAssumption
  <1>4. CacheOK  BY DEF CacheOK, Blocks
  <1>5. LogOK  BY DEF LogOK, Distinct
  <1> QED  BY <1>1, <1>3, <1>4, <1>5 DEF IInv

\* Facts about the processes that a step which changes no pc and no buffer
\* keeps.
LEMMA ProcFrame ==
  ASSUME ProcOK, UNCHANGED <<outstanding, committing, pc, buf>>,
         boot' # "up" => boot # "up"
  PROVE  ProcOK'
  BY DEF ProcOK, Active, Commits

\* A turn of install_trans() names a block of the log that has a slot.
LEMMA InstallTarget ==
  ASSUME TypeOK, LogOK, tail < Len(lh)
  PROVE  /\ tail + 1 \in 1..Len(lh) /\ tail + 1 \in Slot
         /\ lh[tail + 1] \in Block /\ logblk[tail + 1] \in Val
  <1>1. tail + 1 \in 1..Len(lh)  BY DEF TypeOK
  <1>2. lh[tail + 1] \in Block  BY <1>1 DEF TypeOK
  <1>3. tail + 1 \in Slot  BY <1>1, SlotExists DEF TypeOK, LogOK
  <1> QED  BY <1>1, <1>2, <1>3 DEF TypeOK

\* Recovery reads the header.
LEMMA ReadHeadIInv == IInv /\ ReadHead => IInv'
  <1> SUFFICES ASSUME IInv, ReadHead PROVE IInv'  OBVIOUS
  <1> USE DEF IInv, ReadHead, disk
  <1>1. TypeOK'  BY DEF TypeOK
  <1>2. ProcOK'  BY DEF ProcOK, Active, Commits
  <1>3. CacheOK'  BY DEF CacheOK
  <1>4. LogOK'  BY DEF LogOK, Installed, Distinct, ProcOK, TypeOK
  <1> QED  BY <1>1, <1>2, <1>3, <1>4

\* Recovery installs a block.
LEMMA RecoverInstallIInv == IInv /\ RecoverInstall => IInv'
  <1> SUFFICES ASSUME IInv, RecoverInstall PROVE IInv'  OBVIOUS
  <1> USE DEF IInv, RecoverInstall, InstallTrans
  <1>0. /\ tail + 1 \in 1..Len(lh) /\ tail + 1 \in Slot
        /\ lh[tail + 1] \in Block /\ logblk[tail + 1] \in Val
    BY InstallTarget
  <1>1. TypeOK'  BY <1>0 DEF TypeOK
  <1>2. ProcOK'  BY ProcFrame
  <1>3. dirty = {} /\ dirty' = {}  BY DEF CacheOK
  <1>4. CacheOK'
    <2>1. \A p \in Proc : buf[p] = NoBlock  BY DEF ProcOK, Active
    <2>2. \A b \in Block : cache'[b] \in {NoData, home'[b]}
      BY <1>0, <1>3, <2>1, LogAssumption DEF CacheOK, TypeOK, LogAssumption
    <2> QED  BY <1>3, <2>1, <2>2 DEF CacheOK
  <1>5. Installed(tail)'
    BY <1>0 DEF LogOK, Installed, Distinct, TypeOK
  <1>6. LogOK'  BY <1>0, <1>5 DEF LogOK, Distinct, ProcOK, TypeOK
  <1> QED  BY <1>1, <1>2, <1>4, <1>6

\* Recovery erases the header, and the system is up.
LEMMA RecoverEraseIInv == IInv /\ RecoverErase => IInv'
  <1> SUFFICES ASSUME IInv, RecoverErase PROVE IInv'  OBVIOUS
  <1> USE DEF IInv, RecoverErase, Erase
  <1>1. TypeOK'  BY DEF TypeOK
  <1>2. ProcOK'  BY ProcFrame
  <1>3. CacheOK'  BY DEF CacheOK, Blocks
  <1>4. LogOK'  BY DEF LogOK, Distinct, ProcOK
  <1> QED  BY <1>1, <1>2, <1>3, <1>4

\* begin_op().
LEMMA BeginOpIInv == ASSUME NEW p \in Proc PROVE IInv /\ BeginOp(p) => IInv'
  <1> SUFFICES ASSUME IInv, BeginOp(p) PROVE IInv'  OBVIOUS
  <1> USE DEF IInv, BeginOp, At, GoTo, disk
  <1>2. CacheOK'  BY DEF CacheOK
  <1>3. p \notin Active  BY DEF Active
  <1>4. CASE committing \/ Len(lh) + (outstanding + 1) * MAXOPBLOCKS > LOGSIZE
    <2>1. pc' = [pc EXCEPT ![p] = "sleep"] /\ UNCHANGED outstanding  BY <1>4
    <2>0. TypeOK'  BY <1>4, <2>1 DEF TypeOK
    <2>2. Active' = Active  BY <2>1, <1>3 DEF Active, TypeOK
    <2>3. ProcOK'  BY <2>1, <2>2 DEF ProcOK, Commits, TypeOK
    <2>4. LogOK'  BY <2>1 DEF LogOK, Installed, Distinct, TypeOK
    <2> QED  BY <2>0, <1>2, <2>3, <2>4
  <1>5. CASE ~(committing \/ Len(lh) + (outstanding + 1) * MAXOPBLOCKS > LOGSIZE)
    <2>1. pc' = [pc EXCEPT ![p] = "op"] /\ outstanding' = outstanding + 1 /\ ~committing
      BY <1>5
    <2>0. TypeOK'  BY <1>5, <2>1 DEF TypeOK
    <2>2. Active' = Active \cup {p}  BY <2>1 DEF Active, TypeOK
    <2>3. Cardinality(Active') = Cardinality(Active) + 1
      BY <2>2, <1>3, ActiveFinite, FS_AddElement, ZenonT(30)
    <2>4. ProcOK'  BY <2>1, <2>2, <2>3 DEF ProcOK, Commits, TypeOK
    <2>5. LogOK'  BY <2>1 DEF LogOK, Installed, Distinct, TypeOK
    <2> QED  BY <2>0, <1>2, <2>4, <2>5
  <1> QED  BY <1>4, <1>5

\* A block is changed in the cache.
LEMMA ModifyIInv ==
  ASSUME NEW p \in Proc, NEW b \in Block, NEW v \in Val
  PROVE  IInv /\ Modify(p, b, v) => IInv'
  <1> SUFFICES ASSUME IInv, Modify(p, b, v) PROVE IInv'  OBVIOUS
  <1> USE DEF IInv, Modify, At, GoTo, disk
  <1>1. TypeOK'  BY DEF TypeOK
  <1>2. Active' = Active /\ p \in Active  BY DEF Active, TypeOK
  <1>3. ~committing /\ \A q \in Proc : ~Commits(q)  BY <1>2 DEF ProcOK
  <1>4. ProcOK'  BY <1>2, <1>3 DEF ProcOK, Commits, TypeOK
  <1>5. CacheOK'
    <2>1. b # NoBlock /\ v # NoData  BY LogAssumption DEF LogAssumption
    <2>2. cache' = [cache EXCEPT ![b] = v] /\ buf' = [buf EXCEPT ![p] = b]  OBVIOUS
    <2>3. \A c \in Block : c # b => cache'[c] = cache[c]  BY <2>2 DEF TypeOK
    <2>4. \A q \in Proc : q # p => buf'[q] = buf[q]  BY <2>2 DEF TypeOK
    <2>5. cache'[b] = v /\ buf'[p] = b  BY <2>2 DEF TypeOK
    <2>6. buf[p] = NoBlock \/ buf[p] \in Block  BY DEF TypeOK
    <2>7. buf[p] = NoBlock
      BY <2>6 DEF ProcOK, TypeOK
    <2>8. \A c \in dirty : cache'[c] \in Val  BY <2>3, <2>5 DEF CacheOK, TypeOK
    <2>9. \A q \in Proc : buf'[q] # NoBlock => cache'[buf'[q]] \in Val
      BY <2>3, <2>4, <2>5 DEF CacheOK, TypeOK
    <2>10. \A c \in Block : \/ cache'[c] \in {NoData, home[c]} \/ c \in dirty
                            \/ \E q \in Proc : buf'[q] = c
      <3> SUFFICES ASSUME NEW c \in Block, c # b, cache[c] \notin {NoData, home[c]}, c \notin dirty
                   PROVE  \E q \in Proc : buf'[q] = c
        BY <2>3, <2>5
      <3>1. PICK q \in Proc : buf[q] = c  BY DEF CacheOK
      <3>2. q # p  BY <3>1, <2>7, LogAssumption DEF LogAssumption
      <3> QED  BY <3>1, <3>2, <2>4
    <2> QED  BY <2>8, <2>9, <2>10, SMTT(60) DEF CacheOK
  <1>6. LogOK'
    <2>1. \A q \in Proc : pc[q] \notin {"write_log", "install", "done"}
      BY <1>3 DEF Commits
    <2>2. \A q \in Proc : pc'[q] \notin {"write_log", "install", "done"}
      BY <2>1 DEF TypeOK
    <2> QED  BY <2>1, <2>2 DEF LogOK, Distinct, Installed
  <1> QED  BY <1>1, <1>4, <1>5, <1>6

\* The size of the log is tested.
LEMMA LogCheckIInv == ASSUME NEW p \in Proc PROVE IInv /\ LogCheck(p) => IInv'
  <1> SUFFICES ASSUME IInv, LogCheck(p) PROVE IInv'  OBVIOUS
  <1> USE DEF IInv, LogCheck, At, disk
  <1>0. PICK l \in {"append", "panic"} : pc' = [pc EXCEPT ![p] = l]  BY DEF GoTo
  <1>1. TypeOK'  BY <1>0 DEF TypeOK
  <1>2. Active' = Active /\ p \in Active  BY <1>0 DEF Active, TypeOK
  <1>3. ~committing /\ \A q \in Proc : ~Commits(q)  BY <1>2 DEF ProcOK
  <1>4. ProcOK'  BY <1>0, <1>2, <1>3 DEF ProcOK, Commits, TypeOK
  <1>5. CacheOK'  BY SMTT(60) DEF CacheOK
  <1>6. LogOK'
    <2>1. \A q \in Proc : pc[q] \notin {"write_log", "install", "done"}
      BY <1>3 DEF Commits
    <2>2. \A q \in Proc : pc'[q] \notin {"write_log", "install", "done"}
      BY <1>0, <2>1 DEF TypeOK
    <2> QED  BY <2>1, <2>2 DEF LogOK, Distinct, Installed
  <1> QED  BY <1>1, <1>4, <1>5, <1>6

\* A block enters the log.
LEMMA LogAppendIInv == ASSUME NEW p \in Proc PROVE IInv /\ LogAppend(p) => IInv'
  <1> SUFFICES ASSUME IInv, LogAppend(p) PROVE IInv'  OBVIOUS
  <1> USE DEF IInv, LogAppend, At, GoTo, disk
  <1>0. buf[p] \in Block /\ buf[p] # NoBlock
    BY LogAssumption DEF ProcOK, LogAssumption
  <1>1. TypeOK'  BY <1>0 DEF TypeOK
  <1>2. Active' = Active /\ p \in Active  BY DEF Active, TypeOK
  <1>3. ~committing /\ \A q \in Proc : ~Commits(q)  BY <1>2 DEF ProcOK
  <1>4. ProcOK'  BY <1>2, <1>3 DEF ProcOK, Commits, TypeOK
  <1>5. Distinct(lh') /\ Blocks(lh') = Blocks(lh) \cup {buf[p]}
    <2>1. CASE buf[p] \in Blocks(lh)  BY <2>1 DEF LogOK
    <2>2. CASE buf[p] \notin Blocks(lh)
      <3>1. lh' = Append(lh, buf[p])  BY <2>2
      <3>2. /\ Len(lh') = Len(lh) + 1 /\ lh'[Len(lh) + 1] = buf[p]
            /\ \A i \in 1..Len(lh) : lh'[i] = lh[i]
        BY <3>1, <1>0 DEF TypeOK
      <3>3. Len(lh) \in Nat  BY DEF TypeOK
      <3>4. \A i \in 1..Len(lh) : lh[i] # buf[p]  BY <2>2 DEF Blocks
      <3>5. Distinct(lh')  BY <3>2, <3>3, <3>4 DEF LogOK, Distinct
      <3>6. Blocks(lh') = Blocks(lh) \cup {buf[p]}  BY <3>2, <3>3 DEF Blocks
      <3> QED  BY <3>5, <3>6
    <2> QED  BY <2>1, <2>2
  <1>6. CacheOK'
    <2>1. dirty' = dirty \cup {buf[p]} /\ UNCHANGED <<cache, home>>  OBVIOUS
    <2>2. \A q \in Proc : q # p => buf'[q] = buf[q]  BY DEF TypeOK
    <2>3. buf'[p] = NoBlock  BY DEF TypeOK
    <2>4. boot = "up" /\ boot' = "up"  OBVIOUS
    <2>5. dirty' \subseteq Blocks(lh')  BY <1>5, <2>1 DEF CacheOK
    <2>6. \A b \in dirty' : cache'[b] \in Val  BY <1>0, <2>1 DEF CacheOK
    <2>7. \A q \in Proc : buf'[q] # NoBlock => cache'[buf'[q]] \in Val
      BY <2>1, <2>2, <2>3 DEF CacheOK
    <2>8. \A b \in Block : \/ cache'[b] \in {NoData, home'[b]} \/ b \in dirty'
                           \/ \E q \in Proc : buf'[q] = b
      BY <2>1, <2>2, SMTT(60) DEF CacheOK
    <2> QED  BY <2>4, <2>5, <2>6, <2>7, <2>8 DEF CacheOK
  <1>7. LogOK'
    <2>1. \A q \in Proc : pc[q] \notin {"write_log", "install", "done"}
      BY <1>3 DEF Commits
    <2>2. \A q \in Proc : pc'[q] \notin {"write_log", "install", "done"}
      BY <2>1 DEF TypeOK
    <2>3. outstanding' # 0
      BY <1>2, LastOne, ZenonT(30) DEF ProcOK
    <2>4. head = <<>> /\ \A b \in Blocks(lh) : b \in dirty
      BY <2>1 DEF LogOK, Blocks
    <2>5. \A b \in Blocks(lh') : b \in dirty'  BY <2>4, <1>5
    <2>6. \A i \in 1..Len(lh') : lh'[i] \in dirty'  BY <2>5 DEF Blocks
    <2> QED  BY <1>5, <2>2, <2>3, <2>4, <2>6 DEF LogOK, Distinct
  <1> QED  BY <1>1, <1>4, <1>6, <1>7

\* wakeup(&log) changes no process that is inside an operation or a commit.
LEMMA WakeupFrame ==
  ASSUME TypeOK, NEW p \in Proc, pc[p] # "sleep",
         pc' = Wakeup([pc EXCEPT ![p] = "idle"])
  PROVE  /\ pc'[p] = "idle"
         /\ \A q \in Proc : q # p => pc'[q] = IF pc[q] = "sleep" THEN "begin" ELSE pc[q]
         /\ pc' \in [Proc -> {"idle", "begin", "sleep", "op", "check", "append",
                              "write_log", "install", "done", "panic"}]
  BY DEF Wakeup, TypeOK

\* end_op().
LEMMA EndOpIInv == ASSUME NEW p \in Proc PROVE IInv /\ EndOp(p) => IInv'
  <1> SUFFICES ASSUME IInv, EndOp(p) PROVE IInv'  OBVIOUS
  <1> USE DEF IInv, EndOp, At, disk
  <1>0. p \in Active  BY DEF Active
  <1>1. ~committing /\ \A q \in Proc : ~Commits(q)  BY <1>0 DEF ProcOK
  <1>2. /\ outstanding \in Nat \ {0} /\ outstanding' = outstanding - 1
        /\ outstanding = Cardinality(Active)
    BY <1>0, LastOne, ZenonT(30) DEF ProcOK, TypeOK
  <1>3. CacheOK'  BY DEF CacheOK
  <1>4. \A q \in Proc : pc[q] \notin {"write_log", "install", "done"}
    BY <1>1 DEF Commits
  <1>5. buf[p] = NoBlock  BY DEF ProcOK
  <1>6. CASE outstanding = 1
    <2>1. PICK l \in {"done", "write_log"} :
            pc' = [pc EXCEPT ![p] = l] /\ (l = "done" <=> lh = <<>>)
      BY <1>1, <1>6 DEF GoTo
    <2>2. committing' = TRUE /\ tail' = 0  BY <1>1, <1>6
    <2>3. TypeOK'  BY <1>2, <2>1, <2>2 DEF TypeOK
    <2>4. Active = {p}  BY <1>0, <1>2, <1>6, LastOne, ZenonT(60)
    <2>5. Active' = {}  BY <2>1, <2>4 DEF Active, TypeOK
    <2>6. ProcOK'
      <3>1. outstanding' = Cardinality(Active')  BY <1>2, <1>6, <2>5, FS_EmptySet
      <3> QED  BY <3>1, <1>4, <1>5, <2>1, <2>2, <2>5 DEF ProcOK, Commits, TypeOK
    <2>7. LogOK'
      <3>1. \A q \in Proc : q # p => pc'[q] = pc[q]  BY <2>1 DEF TypeOK
      <3>2. pc'[p] = l  BY <2>1 DEF TypeOK
      <3>3. Len(lh) >= 0  BY DEF TypeOK
      <3>4. \A q \in Proc : (pc'[q] = "install" <=> pc[q] = "install") /\ (pc'[q] = "write_log" => q = p)
                             /\ (pc'[q] = "done" => pc[q] = "done" \/ lh = <<>>)
        BY <1>4, <2>1, <3>1, <3>2
      <3> QED  BY <1>4, <2>2, <3>3, <3>4 DEF LogOK, Distinct, Installed
    <2> QED  BY <1>3, <2>3, <2>6, <2>7
  <1>7. CASE outstanding # 1
    <2>1. pc' = Wakeup([pc EXCEPT ![p] = "idle"]) /\ UNCHANGED <<committing, tail>>
      BY <1>1, <1>7
    <2>2. /\ pc'[p] = "idle"
          /\ \A q \in Proc : q # p => pc'[q] = IF pc[q] = "sleep" THEN "begin" ELSE pc[q]
          /\ pc' \in [Proc -> {"idle", "begin", "sleep", "op", "check", "append",
                               "write_log", "install", "done", "panic"}]
      BY <2>1, WakeupFrame, ZenonT(30)
    <2>3. TypeOK'
      <3>1. outstanding' \in Nat /\ UNCHANGED <<home, head, logblk, cache, dirty, lh, boot, buf, wrote>>
        BY <1>2
      <3> QED  BY <3>1, <2>1, <2>2, ZenonT(60) DEF TypeOK
    <2>4. Active' = Active \ {p}  BY <2>2 DEF Active
    <2>5. ProcOK'
      <3>1. outstanding' = Cardinality(Active')  BY <1>0, <1>2, <2>4, LastOne
      <3> QED  BY <3>1, <1>1, <1>4, <1>5, <2>1, <2>2, ZenonT(30) DEF ProcOK, Commits
    <2>6. LogOK'
      <3>1. \A q \in Proc : pc'[q] \notin {"write_log", "install", "done"}
        BY <1>4, <2>2
      <3>2. outstanding' # 0  BY <1>2, <1>7
      <3> QED  BY <1>4, <3>1, <3>2 DEF LogOK, Distinct
    <2> QED  BY <1>3, <2>3, <2>5, <2>6
  <1> QED  BY <1>6, <1>7

\* The only committer, and what is true while it commits.
LEMMA Committer ==
  ASSUME IInv, NEW p \in Proc, Commits(p)
  PROVE  /\ committing /\ Active = {} /\ outstanding = 0
         /\ \A q \in Proc : q # p => ~Commits(q)
         /\ \A q \in Proc : buf[q] = NoBlock
         /\ boot = "up"
  <1>1. committing /\ Active = {} /\ \A q \in Proc : q # p => ~Commits(q)
    BY DEF IInv, ProcOK
  <1>2. outstanding = 0  BY <1>1, FS_EmptySet DEF IInv, ProcOK
  <1>3. \A q \in Proc : buf[q] = NoBlock  BY <1>1 DEF IInv, ProcOK, Active
  <1>4. boot = "up"  BY DEF IInv, ProcOK, Commits
  <1> QED  BY <1>1, <1>2, <1>3, <1>4

-----------------------------------------------------------------------------
\* The space of the log.  The blocks of p's operation that are in the log, and a
\* pair for each block that an operation under way may still add to it.
Mine(p) == wrote[p] \cap Blocks(lh)

Room == {x \in Active \X (1..OpBlocks) : x[2] > Cardinality(Mine(x[1]))}

\* The log and what may still come into it stay two below LOGSIZE.
SpaceOK ==
  /\ \A p \in Active : Cardinality(wrote[p]) <= OpBlocks
  /\ \A p \in Proc : pc[p] \in {"check", "append"} => buf[p] \in wrote[p]
  /\ Len(lh) + Cardinality(Room) + 2 <= LOGSIZE
  /\ Len(head) + 2 <= LOGSIZE
  /\ NoPanic /\ SleepersAwaited

\* A set of blocks is finite.
LEMMA BlocksFinite ==
  ASSUME NEW S \in SUBSET Block
  PROVE  IsFiniteSet(S) /\ Cardinality(S) \in Nat
  BY FS_Subset, FS_CardinalityType, LogAssumption DEF LogAssumption

\* At most OpBlocks blocks are to come for each operation under way.
LEMMA RoomBound ==
  /\ IsFiniteSet(Room) /\ Cardinality(Room) \in Nat
  /\ Cardinality(Room) <= Cardinality(Active) * OpBlocks
  <1>1. IsFiniteSet(1..OpBlocks) /\ Cardinality(1..OpBlocks) = OpBlocks
    <2>1. OpBlocks \in Int /\ 1 \in Int /\ (1 > OpBlocks => OpBlocks = 0)
          /\ OpBlocks - 1 + 1 = OpBlocks
      BY LogAssumption DEF LogAssumption
    <2> QED  BY <2>1, FS_Interval
  <1>2. /\ IsFiniteSet(Active \X (1..OpBlocks))
        /\ Cardinality(Active \X (1..OpBlocks)) = Cardinality(Active) * OpBlocks
    BY <1>1, ActiveFinite, FS_Product, Zenon
  <1>3. Room \in SUBSET (Active \X (1..OpBlocks))  BY DEF Room
  <1>4. IsFiniteSet(Room) /\ Cardinality(Room) <= Cardinality(Active \X (1..OpBlocks))
    BY <1>2, <1>3, FS_Subset
  <1> QED  BY <1>2, <1>4, FS_CardinalityType

\* No operation, nothing to come.
LEMMA RoomEmpty == Active = {} => Cardinality(Room) = 0
  <1>1. Active = {} => Room = {}  BY DEF Room
  <1> QED  BY <1>1, FS_EmptySet

\* The same after a step.
LEMMA RoomNext ==
  /\ IsFiniteSet(Room') /\ Cardinality(Room') \in Nat
  /\ Cardinality(Room') <= Cardinality(Active') * OpBlocks
  /\ Active' = {} => Cardinality(Room') = 0
  <1>1. (/\ IsFiniteSet(Room) /\ Cardinality(Room) \in Nat
         /\ Cardinality(Room) <= Cardinality(Active) * OpBlocks)'
    BY RoomBound, PTL
  <1>2. (Active = {} => Cardinality(Room) = 0)'  BY RoomEmpty, PTL
  <1> QED  BY <1>1, <1>2

\* What is to come does not grow when no operation starts and the blocks that
\* are in the log stay there.
LEMMA RoomShrinks ==
  ASSUME TypeOK, TypeOK', Active' \subseteq Active,
         \A q \in Active' : Mine(q) \subseteq Mine(q)'
  PROVE  Room' \subseteq Room /\ Cardinality(Room') <= Cardinality(Room)
  <1>1. \A q \in Active' : /\ Cardinality(Mine(q)) <= Cardinality(Mine(q)')
                           /\ Cardinality(Mine(q)) \in Nat /\ Cardinality(Mine(q)') \in Nat
    <2> SUFFICES ASSUME NEW q \in Active'
                 PROVE  /\ Cardinality(Mine(q)) <= Cardinality(Mine(q)')
                        /\ Cardinality(Mine(q)) \in Nat /\ Cardinality(Mine(q)') \in Nat
      OBVIOUS
    <2>1. q \in Proc  BY DEF Active
    <2>2. Mine(q) \in SUBSET Block /\ Mine(q)' \in SUBSET Block
      BY <2>1 DEF Mine, TypeOK
    <2>3. Mine(q) \in SUBSET (Mine(q)')  OBVIOUS
    <2> QED  BY <2>2, <2>3, BlocksFinite, FS_Subset
  <1>2. Room' \subseteq Room
    <2> SUFFICES ASSUME NEW x \in Room' PROVE x \in Room  OBVIOUS
    <2>1. x \in Active' \X (1..OpBlocks) /\ x[2] > Cardinality(Mine(x[1])')
      BY DEF Room
    <2>2. x[1] \in Active' /\ x[2] \in 1..OpBlocks /\ x \in Active \X (1..OpBlocks)
      BY <2>1
    <2>3. x[2] > Cardinality(Mine(x[1]))  BY <1>1, <2>1, <2>2
    <2> QED  BY <2>2, <2>3 DEF Room
  <1> QED  BY <1>2, RoomBound, FS_Subset

\* A step outside the operations: recovery, commit() or a crash, with the log
\* what it was, what the disk's header says, or empty.
LEMMA QuietSpace ==
  ASSUME Reserves, IInv, SpaceOK, Active' = {}, SleepersAwaited',
         lh' \in {lh, head, <<>>}, head' \in {head, lh, <<>>}
  PROVE  SpaceOK'
  <1>1. Len(lh) + 2 <= LOGSIZE /\ Len(head) + 2 <= LOGSIZE /\ 2 <= LOGSIZE
    <2>1. Len(lh) \in Nat /\ LOGSIZE \in Nat /\ OpBlocks \in Nat
      BY LogAssumption DEF IInv, TypeOK, LogAssumption
    <2> QED  BY <2>1, RoomBound DEF SpaceOK, Reserves
  <1>2. Len(<<>>) = 0  OBVIOUS
  <1>3. Len(lh') + 2 <= LOGSIZE /\ Len(head') + 2 <= LOGSIZE  BY <1>1, <1>2
  <1>4. Cardinality(Room') = 0  BY RoomNext
  <1>5. Len(lh') + Cardinality(Room') + 2 <= LOGSIZE
    <2>1. Len(lh') \in Nat  BY <1>2 DEF IInv, TypeOK
    <2> QED  BY <1>3, <1>4, <2>1
  <1>6. \A p \in Proc : pc'[p] \notin {"check", "append", "panic"}  BY DEF Active
  <1> QED  BY <1>3, <1>5, <1>6 DEF SpaceOK, NoPanic

\* A step of an operation that adds nothing to the log.
LEMMA BusySpace ==
  ASSUME Reserves, IInv, SpaceOK, TypeOK', Active' \subseteq Active,
         UNCHANGED <<lh, head>>, NoPanic', SleepersAwaited',
         \A q \in Active' : wrote[q] \subseteq wrote'[q] /\ Cardinality(wrote'[q]) <= OpBlocks,
         \A q \in Proc : pc'[q] \in {"check", "append"} => buf'[q] \in wrote'[q]
  PROVE  SpaceOK'
  <1>1. \A q \in Active' : Mine(q) \subseteq Mine(q)'  BY DEF Mine
  <1>2. Cardinality(Room') <= Cardinality(Room)  BY <1>1, RoomShrinks DEF IInv
  <1>3. Len(lh') + Cardinality(Room') + 2 <= LOGSIZE
    <2>1. Len(lh) \in Nat /\ LOGSIZE \in Nat  BY LogAssumption DEF IInv, TypeOK, LogAssumption
    <2>2. Cardinality(Room') \in Nat /\ Cardinality(Room) \in Nat  BY RoomBound, RoomNext
    <2> QED  BY <1>2, <2>1, <2>2 DEF SpaceOK
  <1> QED  BY <1>3 DEF SpaceOK

\* At boot the log is empty.
LEMMA InitSpace == ASSUME Reserves, Init PROVE SpaceOK
  <1>1. Active = {}  BY DEF Init, Active
  <1>2. Cardinality(Room) = 0  BY <1>1, RoomEmpty
  <1>3. 2 <= LOGSIZE  BY LogAssumption DEF LogAssumption, Reserves
  <1>4. Len(lh) = 0 /\ Len(head) = 0  BY DEF Init
  <1>5. NoPanic /\ SleepersAwaited /\ \A p \in Proc : pc[p] = "idle"
    BY DEF Init, NoPanic, SleepersAwaited
  <1>6. Len(lh) + Cardinality(Room) + 2 <= LOGSIZE /\ Len(head) + 2 <= LOGSIZE
    BY <1>2, <1>3, <1>4
  <1> QED  BY <1>1, <1>5, <1>6 DEF SpaceOK

\* Recovery, commit() and crashes keep the space.
LEMMA QuietSteps ==
  ASSUME Reserves, IInv, SpaceOK, NEW p,
         \/ Recovery \/ Crash
         \/ p \in Proc /\ \/ WriteLog(p) \/ WriteHead(p) \/ CommitInstall(p)
                          \/ CommitErase(p) \/ EndCommit(p)
  PROVE  SpaceOK'
  <1>1. CASE Recovery
    <2>1. Active = {}  BY <1>1 DEF Recovery, ReadHead, RecoverInstall, RecoverErase, IInv, ProcOK, Active
    <2>2. /\ UNCHANGED <<pc, outstanding, committing>>
          /\ lh' \in {lh, head, <<>>} /\ head' \in {head, <<>>}
      BY <1>1, Zenon DEF Recovery, ReadHead, RecoverInstall, RecoverErase, InstallTrans, Erase, disk
    <2>3. Active' = {} /\ SleepersAwaited'  BY <2>1, <2>2 DEF Active, SpaceOK, SleepersAwaited
    <2> QED  BY <2>2, <2>3, QuietSpace, Zenon
  <1>2. CASE Crash
    <2>1. Active' = {} /\ SleepersAwaited'  BY <1>2 DEF Crash, Active, SleepersAwaited
    <2> QED  BY <1>2, <2>1, QuietSpace DEF Crash, disk
  <1>3. CASE p \in Proc /\ (WriteLog(p) \/ WriteHead(p) \/ CommitInstall(p) \/ CommitErase(p))
    <2>1. Active = {} /\ committing
      BY <1>3, Committer, Zenon DEF WriteLog, WriteHead, CommitInstall, CommitErase, At, Commits
    <2>2. /\ committing' = committing
          /\ lh' \in {lh, <<>>} /\ head' \in {head, lh, <<>>}
          /\ \E a \in {pc[p], "install", "done"} : pc' = [pc EXCEPT ![p] = a]
      BY <1>3 DEF WriteLog, WriteHead, CommitInstall, CommitErase, InstallTrans, Erase, GoTo, IInv, TypeOK
    <2>3. Active' = {}  BY <2>1, <2>2 DEF Active, IInv, TypeOK
    <2>4. SleepersAwaited'  BY <2>1, <2>2 DEF SleepersAwaited
    <2> QED  BY <2>2, <2>3, <2>4, QuietSpace, Zenon
  <1>4. CASE p \in Proc /\ EndCommit(p)
    <2>1. Active = {}  BY <1>4, Committer DEF EndCommit, At, Commits
    <2>2. /\ pc'[p] = "idle"
          /\ \A q \in Proc : q # p => pc'[q] = IF pc[q] = "sleep" THEN "begin" ELSE pc[q]
      BY <1>4, WakeupFrame, Zenon DEF EndCommit, At, IInv
    <2>3. Active' = {} /\ SleepersAwaited'  BY <2>1, <2>2 DEF Active, SleepersAwaited
    <2> QED  BY <1>4, <2>3, QuietSpace DEF EndCommit, disk
  <1> QED  BY <1>1, <1>2, <1>3, <1>4

\* What the processes' variables are functions of.
LEMMA ProcFunctions ==
  ASSUME IInv
  PROVE  /\ pc = [q \in Proc |-> pc[q]] /\ buf = [q \in Proc |-> buf[q]]
         /\ wrote = [q \in Proc |-> wrote[q]]
  BY DEF IInv, TypeOK

\* begin_op() sleeps only when there is somebody to wait for, and lets in an
\* operation only when the log has room for all that are under way.
LEMMA BeginOpSpace ==
  ASSUME Reserves, IInv, TypeOK', ProcOK', SpaceOK, NEW p \in Proc, BeginOp(p)
  PROVE  SpaceOK'
  <1> DEFINE Full == committing \/ Len(lh) + (outstanding + 1) * MAXOPBLOCKS > LOGSIZE
  <1>0. /\ MAXOPBLOCKS \in Nat \ {0} /\ LOGSIZE \in Nat /\ OpBlocks \in Nat
        /\ Len(lh) \in Nat /\ outstanding \in Nat
    BY LogAssumption DEF IInv, TypeOK, LogAssumption
  <1>1. /\ boot = "up" /\ p \notin Active /\ UNCHANGED <<lh, head, buf, committing>>
        /\ \A q \in Proc : pc[q] # "panic"
    BY DEF BeginOp, At, disk, Active, SpaceOK, NoPanic
  <1>2. ~committing /\ outstanding = 0 => Len(lh) = 0
    BY <1>1 DEF IInv, LogOK
  <1>3. CASE Full
    <2>1. pc' = [pc EXCEPT ![p] = "sleep"] /\ UNCHANGED <<outstanding, wrote>>
      BY <1>3 DEF BeginOp, GoTo
    <2>2. Active' = Active /\ NoPanic'  BY <1>1, <2>1 DEF Active, NoPanic, IInv, TypeOK
    <2>3. committing \/ outstanding > 0
      <3> SUFFICES ASSUME ~committing, outstanding = 0 PROVE FALSE  BY <1>0
      <3> QED  BY <1>0, <1>2, <1>3 DEF Reserves
    <2>4. SleepersAwaited'  BY <1>1, <2>1, <2>3 DEF SleepersAwaited
    <2>5. \A q \in Proc : pc'[q] \in {"check", "append"} => buf'[q] \in wrote'[q]
      BY <1>1, <2>1 DEF SpaceOK, IInv, TypeOK
    <2>6. \A q \in Active' : wrote[q] \subseteq wrote'[q] /\ Cardinality(wrote'[q]) <= OpBlocks
      BY <2>1, <2>2 DEF SpaceOK
    <2> QED  BY <1>1, <2>2, <2>4, <2>5, <2>6, BusySpace, Zenon
  <1>4. CASE ~Full
    <2>1. /\ pc' = [pc EXCEPT ![p] = "op"] /\ outstanding' = outstanding + 1
          /\ wrote' = [wrote EXCEPT ![p] = {}]
      BY <1>4 DEF BeginOp, GoTo
    <2>2. Active' = Active \cup {p} /\ NoPanic' /\ SleepersAwaited'
      BY <1>0, <1>1, <2>1 DEF Active, NoPanic, SleepersAwaited, IInv, TypeOK
    <2>3. Len(lh) + Cardinality(Room') + 2 <= LOGSIZE
      <3>1. /\ Cardinality(Room') \in Nat
            /\ Cardinality(Room') <= (outstanding + 1) * OpBlocks
        <4>1. Cardinality(Active') = outstanding + 1  BY <2>1 DEF ProcOK
        <4> QED  BY <4>1, RoomNext
      <3>2. CASE outstanding = 0
        BY <1>0, <1>2, <1>4, <3>1, <3>2 DEF Reserves
      <3>3. CASE outstanding # 0
        <4>1. (outstanding + 1) * OpBlocks <= (outstanding + 1) * (MAXOPBLOCKS - 1)
          BY <1>0 DEF Reserves
        <4>2. (outstanding + 1) * (MAXOPBLOCKS - 1) = (outstanding + 1) * MAXOPBLOCKS - (outstanding + 1)
          BY <1>0
        <4>3. Len(lh) + (outstanding + 1) * MAXOPBLOCKS <= LOGSIZE  BY <1>0, <1>4
        <4> QED  BY <1>0, <3>1, <3>3, <4>1, <4>2, <4>3
      <3> QED  BY <3>2, <3>3
    <2>4. Cardinality(wrote'[p]) <= OpBlocks
      <3>1. wrote'[p] = {}  BY <2>1 DEF IInv, TypeOK
      <3> QED  BY <1>0, <3>1, FS_EmptySet
    <2>5. \A q \in Active' : Cardinality(wrote'[q]) <= OpBlocks
      BY <2>1, <2>2, <2>4 DEF SpaceOK, Active, IInv, TypeOK
    <2>6. \A q \in Proc : pc'[q] \in {"check", "append"} => buf'[q] \in wrote'[q]
      BY <1>1, <2>1 DEF SpaceOK, IInv, TypeOK
    <2> QED  BY <1>1, <2>2, <2>3, <2>5, <2>6 DEF SpaceOK
  <1> QED  BY <1>3, <1>4

\* A block is changed: it counts as written before it is in the log.
LEMMA ModifySpace ==
  ASSUME Reserves, IInv, TypeOK', SpaceOK, NEW p \in Proc, NEW b \in Block, NEW v \in Val,
         Modify(p, b, v)
  PROVE  SpaceOK'
  <1>1. /\ pc' = [pc EXCEPT ![p] = "check"] /\ pc[p] = "op"
        /\ buf' = [buf EXCEPT ![p] = b] /\ wrote' = [wrote EXCEPT ![p] = wrote[p] \cup {b}]
        /\ Cardinality(wrote[p] \cup {b}) <= OpBlocks
        /\ UNCHANGED <<lh, head, outstanding, committing>>
    BY DEF Modify, At, GoTo, disk
  <1>4. /\ pc'[p] = "check" /\ \A q \in Proc : q # p => pc'[q] = pc[q]
        /\ buf'[p] = b /\ \A q \in Proc : q # p => buf'[q] = buf[q]
        /\ wrote'[p] = wrote[p] \cup {b} /\ \A q \in Proc : q # p => wrote'[q] = wrote[q]
    BY <1>1, ProcFunctions
  <1>2. Active' = Active  BY <1>1, <1>4 DEF Active
  <1>3. NoPanic' /\ SleepersAwaited'
    BY <1>1, <1>4 DEF SpaceOK, NoPanic, SleepersAwaited
  <1>5. \A q \in Active' : wrote[q] \subseteq wrote'[q] /\ Cardinality(wrote'[q]) <= OpBlocks
    BY <1>1, <1>2, <1>4, Zenon DEF SpaceOK, Active
  <1>6. \A q \in Proc : pc'[q] \in {"check", "append"} => buf'[q] \in wrote'[q]
    BY <1>4 DEF SpaceOK
  <1> QED  BY <1>1, <1>2, <1>3, <1>5, <1>6, BusySpace, Zenon

\* log_write()'s tests of the size and of outstanding never fail.
LEMMA LogCheckSpace ==
  ASSUME Reserves, IInv, TypeOK', SpaceOK, NEW p \in Proc, LogCheck(p)
  PROVE  SpaceOK'
  <1>1. /\ LOGSIZE \in Nat /\ nlog \in Nat /\ OpBlocks \in Nat
        /\ Len(lh) \in Nat /\ outstanding \in Nat /\ Cardinality(Room) \in Nat
    BY LogAssumption, RoomBound DEF IInv, TypeOK, LogAssumption
  <1>2. p \in Active  BY DEF LogCheck, At, Active
  <1>3. outstanding # 0  BY <1>2, LastOne, Zenon DEF IInv, ProcOK
  <1>4. ~(Len(lh) >= LOGSIZE \/ Len(lh) >= nlog - 1 \/ outstanding < 1)
    BY <1>1, <1>3 DEF SpaceOK, Reserves
  <1>5. /\ pc' = [pc EXCEPT ![p] = "append"] /\ pc[p] = "check"
        /\ UNCHANGED <<lh, head, outstanding, committing, buf, wrote>>
    BY <1>4 DEF LogCheck, At, GoTo, disk
  <1>10. pc'[p] = "append" /\ \A q \in Proc : q # p => pc'[q] = pc[q]
    BY <1>5, ProcFunctions
  <1>6. Active' = Active  BY <1>5, <1>10 DEF Active
  <1>7. NoPanic' /\ SleepersAwaited'
    BY <1>5, <1>10 DEF SpaceOK, NoPanic, SleepersAwaited
  <1>8. \A q \in Proc : pc'[q] \in {"check", "append"} => buf'[q] \in wrote'[q]
    BY <1>5, <1>10 DEF SpaceOK
  <1>9. \A q \in Active' : wrote[q] \subseteq wrote'[q] /\ Cardinality(wrote'[q]) <= OpBlocks
    BY <1>5, <1>6 DEF SpaceOK
  <1> QED  BY <1>5, <1>6, <1>7, <1>8, <1>9, BusySpace, Zenon

\* A block that enters the log takes the place of one that was to come.
LEMMA LogAppendSpace ==
  ASSUME Reserves, IInv, TypeOK', SpaceOK, NEW p \in Proc, LogAppend(p)
  PROVE  SpaceOK'
  <1>1. /\ pc' = [pc EXCEPT ![p] = "op"] /\ pc[p] = "append"
        /\ UNCHANGED <<head, outstanding, committing, wrote>>
        /\ buf' = [buf EXCEPT ![p] = NoBlock]
        /\ buf[p] \in wrote[p] /\ buf[p] \in Block
    BY DEF LogAppend, At, GoTo, disk, SpaceOK, IInv, ProcOK
  <1>8. /\ pc'[p] = "op" /\ \A q \in Proc : q # p => pc'[q] = pc[q] /\ buf'[q] = buf[q]
    BY <1>1, ProcFunctions
  <1>2. Active' = Active /\ p \in Active  BY <1>1, <1>8 DEF Active
  <1>3. NoPanic' /\ SleepersAwaited'
    BY <1>1, <1>8 DEF SpaceOK, NoPanic, SleepersAwaited
  <1>4. \A q \in Active' : wrote[q] \subseteq wrote'[q] /\ Cardinality(wrote'[q]) <= OpBlocks
    BY <1>1, <1>2, Zenon DEF SpaceOK
  <1>5. \A q \in Proc : pc'[q] \in {"check", "append"} => buf'[q] \in wrote'[q]
    BY <1>1, <1>8 DEF SpaceOK
  <1>6. CASE buf[p] \in Blocks(lh)
    <2>1. lh' = lh  BY <1>6, Zenon DEF LogAppend
    <2> QED  BY <1>1, <1>2, <1>3, <1>4, <1>5, <2>1, BusySpace, Zenon
  <1>7. CASE buf[p] \notin Blocks(lh)
    <2>1. lh' = Append(lh, buf[p]) /\ lh \in Seq(Block)  BY <1>7, Zenon DEF LogAppend, IInv, TypeOK
    <2>2. /\ Len(lh') = Len(lh) + 1 /\ lh'[Len(lh) + 1] = buf[p] /\ Len(lh) \in Nat
          /\ \A i \in 1..Len(lh) : lh'[i] = lh[i]
      BY <1>1, <2>1
    <2>3. Blocks(lh') = Blocks(lh) \cup {buf[p]}  BY <2>2 DEF Blocks
    <2>4. \A q \in Active' : Mine(q) \subseteq Mine(q)'  BY <1>1, <2>3 DEF Mine
    <2>5. Room' \subseteq Room  BY <1>2, <2>4, RoomShrinks, Zenon DEF IInv
    <2> DEFINE n == Cardinality(Mine(p))
    <2>6. /\ Mine(p)' = Mine(p) \cup {buf[p]} /\ buf[p] \notin Mine(p)
          /\ Mine(p) \in SUBSET Block /\ Mine(p)' \in SUBSET wrote[p] /\ wrote[p] \in SUBSET Block
      BY <1>1, <1>7, <2>3 DEF Mine, IInv, TypeOK
    <2>7. n \in Nat /\ Cardinality(Mine(p)') = n + 1
      <3>1. IsFiniteSet(Mine(p)) /\ n \in Nat  BY <2>6, BlocksFinite
      <3> QED  BY <2>6, <3>1, FS_AddElement, Zenon
    <2>8. n + 1 <= Cardinality(wrote[p]) /\ Cardinality(wrote[p]) \in Nat
      <3>1. IsFiniteSet(wrote[p]) /\ Cardinality(wrote[p]) \in Nat  BY <2>6, BlocksFinite
      <3>2. Cardinality(Mine(p)') <= Cardinality(wrote[p])  BY <2>6, <3>1, FS_Subset
      <3> QED  BY <2>7, <3>1, <3>2
    <2>9. n + 1 \in 1..OpBlocks
      <3>1. Cardinality(wrote[p]) <= OpBlocks /\ OpBlocks \in Nat
        BY <1>2, LogAssumption DEF SpaceOK, LogAssumption
      <3> QED  BY <2>7, <2>8, <3>1
    <2>10. <<p, n + 1>> \in Room
      <3>1. n + 1 > n  BY <2>7
      <3> QED  BY <1>2, <2>9, <3>1 DEF Room
    <2>11. <<p, n + 1>> \notin Room'
      <3>1. ~(n + 1 > Cardinality(Mine(p)'))  BY <2>7
      <3> QED  BY <3>1 DEF Room
    <2>12. Cardinality(Room') + 1 <= Cardinality(Room)
      <3>1. /\ IsFiniteSet(Room \ {<<p, n + 1>>})
            /\ Cardinality(Room \ {<<p, n + 1>>}) = Cardinality(Room) - 1
        BY <2>10, RoomBound, FS_RemoveElement
      <3>2. Room' \in SUBSET (Room \ {<<p, n + 1>>})  BY <2>5, <2>11
      <3>3. Cardinality(Room') <= Cardinality(Room) - 1  BY <3>1, <3>2, FS_Subset
      <3> QED  BY <3>3, RoomBound, RoomNext
    <2>13. Len(lh') + Cardinality(Room') + 2 <= LOGSIZE
      <3>1. LOGSIZE \in Nat /\ Cardinality(Room) \in Nat /\ Cardinality(Room') \in Nat
        BY LogAssumption, RoomBound, RoomNext DEF LogAssumption
      <3> QED  BY <2>2, <2>12, <3>1 DEF SpaceOK
    <2> QED  BY <1>1, <1>3, <1>4, <1>5, <2>13 DEF SpaceOK
  <1> QED  BY <1>6, <1>7, Zenon

\* end_op() gives its room back, and wakes the sleepers or commits.
LEMMA EndOpSpace ==
  ASSUME Reserves, IInv, TypeOK', SpaceOK, NEW p \in Proc, EndOp(p)
  PROVE  SpaceOK'
  <1>1. /\ p \in Active /\ pc[p] = "op"
        /\ UNCHANGED <<lh, head, buf, wrote>>
    BY DEF EndOp, At, disk, Active
  <1>2. ~committing  BY <1>1 DEF IInv, ProcOK
  <1>3. /\ pc'[p] \in {"done", "write_log", "idle"}
        /\ \A q \in Proc : q # p => pc'[q] \in {pc[q], "begin"}
        /\ committing' \/ \A q \in Proc : pc'[q] # "sleep"
    <2>1. CASE outstanding = 1
      <3>1. PICK l \in {"done", "write_log"} : pc' = [pc EXCEPT ![p] = l]
        BY <1>2, <2>1 DEF EndOp, GoTo
      <3>2. committing'  BY <1>2, <2>1 DEF EndOp
      <3> QED  BY <3>1, <3>2 DEF IInv, TypeOK
    <2>2. CASE outstanding # 1
      <3>1. pc' = Wakeup([pc EXCEPT ![p] = "idle"])  BY <1>2, <2>2 DEF EndOp
      <3>2. /\ pc'[p] = "idle"
            /\ \A q \in Proc : q # p => pc'[q] = IF pc[q] = "sleep" THEN "begin" ELSE pc[q]
        BY <1>1, <3>1, WakeupFrame, Zenon DEF IInv
      <3> QED  BY <3>2
    <2> QED  BY <2>1, <2>2
  <1>4. Active' \subseteq Active  BY <1>3 DEF Active
  <1>5. NoPanic' /\ SleepersAwaited'  BY <1>3 DEF SpaceOK, NoPanic, SleepersAwaited
  <1>6. \A q \in Proc : pc'[q] \in {"check", "append"} => buf'[q] \in wrote'[q]
    BY <1>1, <1>3 DEF SpaceOK
  <1>7. \A q \in Active' : wrote[q] \subseteq wrote'[q] /\ Cardinality(wrote'[q]) <= OpBlocks
    BY <1>1, <1>4 DEF SpaceOK
  <1> QED  BY <1>1, <1>4, <1>5, <1>6, <1>7, BusySpace, Zenon

\* A step that moves no process and leaves the log alone.
LEMMA IdleSpace ==
  ASSUME SpaceOK, UNCHANGED <<lh, head, pc, buf, wrote, outstanding, committing>>
  PROVE  SpaceOK'
  BY DEF SpaceOK, Active, Room, Mine, Blocks, NoPanic, SleepersAwaited
=============================================================================
