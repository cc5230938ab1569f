------------------------------ MODULE LogProofs -----------------------------
(***************************************************************************)
(* Every step of Log keeps the invariant of LogInv: commit(), the recycling *)
(* of buffers and a crash here, the others there.  And from it: Log         *)
(* implements Journal, for all processes, blocks, contents and sizes of the *)
(* log; write-ahead; durability when nothing is under way.                  *)
(***************************************************************************)
EXTENDS LogInv

\* Both provers, with time.
USE SMTT(30), ZenonT(30)

\* A block of the log is copied to its slot.
LEMMA WriteLogIInv == ASSUME NEW p \in Proc PROVE IInv /\ WriteLog(p) => IInv'
  <1> SUFFICES ASSUME IInv, WriteLog(p) PROVE IInv'  OBVIOUS
  <1> USE DEF WriteLog, At
  <1>0. /\ tail + 1 \in 1..Len(lh) /\ tail + 1 \in Slot
        /\ lh[tail + 1] \in Block /\ logblk[tail + 1] \in Val
    BY InstallTarget DEF IInv
  <1>1. \A q \in Proc : pc[q] # "install" /\ pc[q] # "done"
    BY Committer DEF Commits
  <1>2. \A i \in 1..Len(lh) : lh[i] \in dirty /\ cache[lh[i]] \in Val
    BY <1>1, SMTT(60) DEF IInv, LogOK, CacheOK
  <1>3. Contents(lh[tail + 1]) = cache[lh[tail + 1]] /\ cache[lh[tail + 1]] \in Val
    BY <1>0, <1>2, LogAssumption DEF Contents, LogAssumption
  <1>4. TypeOK'  BY <1>0, <1>3 DEF IInv, TypeOK
  <1>5. ProcOK'  BY ProcFrame DEF IInv
  <1>6. CacheOK'  BY DEF IInv, CacheOK
  <1>7. \A i \in 1..tail' : logblk'[i] = cache[lh[i]]
    BY <1>0, <1>3 DEF IInv, LogOK, TypeOK
  <1>8. tail' <= Len(lh)  BY <1>0, SMTT(60)
  <1>9. LogOK'
    <2>1. boot' = "up"  BY DEF IInv, ProcOK
    <2>2. Distinct(lh)' /\ Distinct(head)'  BY DEF IInv, LogOK, Distinct
    <2>3. head' = <<>> /\ \A i \in 1..Len(lh') : lh'[i] \in dirty'
      BY <1>1, <2>1, SMTT(60) DEF IInv, LogOK
    <2>4. outstanding' = 0 /\ ~committing' => lh' = <<>>
      BY <2>1, SMTT(60) DEF IInv, LogOK
    <2> QED  BY <1>1, <1>7, <1>8, <2>1, <2>2, <2>3, <2>4, SMTT(60) DEF LogOK
  <1> QED  BY <1>4, <1>5, <1>6, <1>9 DEF IInv

\* The header is written: the commit.
LEMMA WriteHeadIInv == ASSUME NEW p \in Proc PROVE IInv /\ WriteHead(p) => IInv'
  <1> SUFFICES ASSUME IInv, WriteHead(p) PROVE IInv'  OBVIOUS
  <1> USE DEF WriteHead, At, GoTo
  <1>0. /\ committing /\ Active = {} /\ outstanding = 0
        /\ \A q \in Proc : q # p => ~Commits(q)
        /\ \A q \in Proc : buf[q] = NoBlock
    BY Committer DEF Commits
  <1>1. \A q \in Proc : pc[q] # "install"  BY <1>0 DEF Commits
  <1>2. pc'[p] = "install" /\ \A q \in Proc : q # p => pc'[q] = pc[q]
    BY DEF IInv, TypeOK
  <1>3. TypeOK'  BY DEF IInv, TypeOK
  <1>4. Active' = {}  BY <1>0, <1>2, SMTT(60) DEF Active
  <1>5. ProcOK'
    BY <1>0, <1>2, <1>4, SMTT(60) DEF IInv, ProcOK, Commits
  <1>6. CacheOK'  BY DEF IInv, CacheOK
  <1>7. /\ \A i \in 1..Len(lh) : lh[i] \in dirty /\ logblk[i] = cache[lh[i]]
        /\ Len(lh) \in Nat
    BY <1>1, SMTT(60) DEF IInv, LogOK, TypeOK
  <1>8. \A b \in dirty : \E i \in 1..Len(lh) : lh[i] = b
    BY DEF IInv, CacheOK, Blocks
  <1>9. \A q \in Proc : q # p => pc'[q] \notin {"write_log", "install", "done"}
    BY <1>0, <1>2 DEF Commits
  <1>10. LogOK'
    <2>1. lh' = lh /\ head' = lh /\ tail' = 0 /\ dirty' = dirty /\ cache' = cache
          /\ logblk' = logblk /\ boot' = "up" /\ committing' = committing
      OBVIOUS
    <2>2. Distinct(lh') /\ Distinct(head')  BY <2>1 DEF IInv, LogOK
    <2>3. 0 + 1..Len(lh) = 1..Len(lh)  BY <1>7, SMTT(60)
    <2>4. Installed(tail)'  BY <2>1 DEF Installed
    <2>5. \A i \in 1..tail' : cache'[lh'[i]] \in {NoData, logblk'[i]}  BY <2>1
    <2> QED  BY <1>0, <1>2, <1>7, <1>8, <1>9, <2>1, <2>2, <2>3, <2>4, <2>5 DEF LogOK
  <1> QED  BY <1>3, <1>5, <1>6, <1>10 DEF IInv

\* commit() installs a block.
LEMMA CommitInstallIInv == ASSUME NEW p \in Proc PROVE IInv /\ CommitInstall(p) => IInv'
  <1> SUFFICES ASSUME IInv, CommitInstall(p) PROVE IInv'  OBVIOUS
  <1> USE DEF CommitInstall, InstallTrans, At
  <1>0. /\ tail + 1 \in 1..Len(lh) /\ tail + 1 \in Slot
        /\ lh[tail + 1] \in Block /\ logblk[tail + 1] \in Val
    BY InstallTarget DEF IInv
  <1>1. TypeOK'  BY <1>0 DEF IInv, TypeOK
  <1>2. ProcOK'  BY ProcFrame DEF IInv
  <1>3. /\ \A q \in Proc : q # p => ~Commits(q)
        /\ \A q \in Proc : buf[q] = NoBlock
        /\ committing
    BY Committer DEF Commits
  <1> DEFINE t == lh[tail + 1]
  <1>4. /\ \A c \in Block : c # t => cache'[c] = cache[c] /\ home'[c] = home[c]
        /\ cache'[t] = logblk[tail + 1] /\ home'[t] = logblk[tail + 1]
        /\ dirty' = dirty \ {t}
    BY <1>0, SMTT(60) DEF IInv, TypeOK
  <1>5. CacheOK'
    <2>1. \A c \in Block : \/ cache'[c] \in {NoData, home'[c]} \/ c \in dirty'
      <3>1. \A c \in Block, q \in Proc : buf[q] # c
        BY <1>3, LogAssumption, ZenonT(30) DEF LogAssumption
      <3>2. \A c \in Block : cache[c] \in {NoData, home[c]} \/ c \in dirty
        BY <3>1, ZenonT(30) DEF IInv, CacheOK
      <3> QED  BY <1>4, <3>2
    <2>2. \A c \in dirty' : cache'[c] \in Val
      BY <1>4 DEF IInv, CacheOK, TypeOK
    <2> QED  BY <1>3, <1>4, <2>1, <2>2, Committer, SMTT(60) DEF IInv, CacheOK, Commits
  <1>6. /\ \A i \in 1..Len(lh) : i # tail + 1 => lh[i] # t
        /\ \A i \in 1..Len(lh) : lh[i] \in Block
        /\ Len(lh) \in Nat /\ tail \in Nat
    BY <1>0, SMTT(60) DEF IInv, LogOK, Distinct, TypeOK
  <1>7. LogOK'
    <2>1. /\ head = lh /\ Installed(tail)
          /\ \A i \in 1..tail : cache[lh[i]] \in {NoData, logblk[i]}
          /\ \A i \in tail+1..Len(lh) : lh[i] \in dirty /\ logblk[i] = cache[lh[i]]
          /\ \A b \in dirty : \E i \in tail+1..Len(lh) : lh[i] = b
      BY DEF IInv, LogOK
    <2>2. Installed(tail)'
      BY <1>0, <1>4, <1>6, <2>1 DEF Installed
    <2>3. \A i \in 1..tail' : cache'[lh[i]] \in {NoData, logblk[i]}
      BY <1>0, <1>4, <1>6, <2>1, SMTT(60)
    <2>4. \A i \in tail'+1..Len(lh) : lh[i] \in dirty' /\ logblk[i] = cache'[lh[i]]
      BY <1>0, <1>4, <1>6, <2>1
    <2>5. \A b \in dirty' : \E i \in tail'+1..Len(lh) : lh[i] = b
      BY <1>0, <1>4, <1>6, <2>1, SMTT(60)
    <2>6. \A q \in Proc : q # p => pc[q] \notin {"write_log", "install", "done"}
      BY <1>3 DEF Commits
    <2>7. tail' <= Len(lh)  BY <1>0
    <2>8. Distinct(lh)' /\ Distinct(head)'  BY DEF IInv, LogOK, Distinct
    <2> QED  BY <1>3, <2>1, <2>2, <2>3, <2>4, <2>5, <2>6, <2>7, <2>8, SMTT(60) DEF LogOK
  <1> QED  BY <1>1, <1>2, <1>5, <1>7 DEF IInv

\* commit() erases the header.
LEMMA CommitEraseIInv == ASSUME NEW p \in Proc PROVE IInv /\ CommitErase(p) => IInv'
  <1> SUFFICES ASSUME IInv, CommitErase(p) PROVE IInv'  OBVIOUS
  <1> USE DEF CommitErase, Erase, At, GoTo
  <1>0. /\ committing /\ Active = {} /\ outstanding = 0
        /\ \A q \in Proc : q # p => ~Commits(q)
        /\ \A q \in Proc : buf[q] = NoBlock
    BY Committer DEF Commits
  <1>1. TypeOK'  BY DEF IInv, TypeOK
  <1>2. pc'[p] = "done" /\ \A q \in Proc : q # p => pc'[q] = pc[q]
    BY DEF IInv, TypeOK
  <1>3. Active' = {}  BY <1>0, <1>2, SMTT(60) DEF Active
  <1>4. ProcOK'  BY <1>0, <1>2, <1>3 DEF IInv, ProcOK, Commits
  <1>5. dirty = {}
    <2>1. \A b \in dirty : \E i \in tail+1..Len(lh) : lh[i] = b  BY DEF IInv, LogOK
    <2>2. tail+1..Len(lh) = {}  BY DEF IInv, TypeOK
    <2> QED  BY <2>1, <2>2
  <1>6. CacheOK'  BY <1>5 DEF IInv, CacheOK
  <1>7. LogOK'
    <2>1. \A q \in Proc : q # p => pc'[q] \notin {"write_log", "install", "done"}
      BY <1>0, <1>2 DEF Commits
    <2> QED  BY <1>0, <1>2, <2>1 DEF LogOK, Distinct
  <1> QED  BY <1>1, <1>4, <1>6, <1>7 DEF IInv

\* end_op() ends the commit.
LEMMA EndCommitIInv == ASSUME NEW p \in Proc PROVE IInv /\ EndCommit(p) => IInv'
  <1> SUFFICES ASSUME IInv, EndCommit(p) PROVE IInv'  OBVIOUS
  <1> USE DEF EndCommit, At, disk
  <1>0. /\ committing /\ Active = {} /\ outstanding = 0
        /\ \A q \in Proc : q # p => ~Commits(q)
        /\ \A q \in Proc : buf[q] = NoBlock
    BY Committer DEF Commits
  <1>1. /\ pc'[p] = "idle"
        /\ \A q \in Proc : q # p => pc'[q] = IF pc[q] = "sleep" THEN "begin" ELSE pc[q]
        /\ pc' \in [Proc -> {"idle", "begin", "sleep", "op", "check", "append",
                             "write_log", "install", "done", "panic"}]
    BY WakeupFrame, ZenonT(30) DEF IInv
  <1>2. TypeOK'  BY <1>1, ZenonT(30) DEF IInv, TypeOK
  <1>3. Active' = {}  BY <1>0, <1>1, ZenonT(30) DEF Active
  <1>4. \A q \in Proc : pc'[q] \notin {"write_log", "install", "done"}
    BY <1>0, <1>1, ZenonT(30) DEF Commits
  <1>5. ProcOK'  BY <1>0, <1>1, <1>3, <1>4, ZenonT(60) DEF IInv, ProcOK, Commits
  <1>6. CacheOK'  BY ZenonT(30) DEF IInv, CacheOK
  <1>7. \A q \in Proc : pc[q] # "install"  BY <1>0, ZenonT(60) DEF Commits
  <1>8. lh = <<>> /\ head = <<>> /\ boot = "up"  BY <1>7 DEF IInv, LogOK
  <1>9. LogOK'
    <2>1. lh' = <<>> /\ head' = <<>> /\ boot' = "up"  BY <1>8
    <2>2. Distinct(lh') /\ Distinct(head')  BY <2>1 DEF Distinct
    <2>3. \A i \in 1..Len(lh') : lh'[i] \in dirty'  BY <2>1
    <2> QED  BY <1>4, <2>1, <2>2, <2>3, ZenonT(30) DEF LogOK
  <1> QED  BY <1>2, <1>5, <1>6, <1>9 DEF IInv

\* A clean buffer is recycled.
LEMMA EvictIInv == ASSUME NEW b \in Block PROVE IInv /\ Evict(b) => IInv'
  <1> SUFFICES ASSUME IInv, Evict(b) PROVE IInv'  OBVIOUS
  <1> USE DEF Evict, disk
  <1>1. TypeOK'  BY DEF IInv, TypeOK
  <1>2. ProcOK'  BY ProcFrame DEF IInv
  <1>3. cache'[b] = NoData /\ \A c \in Block : c # b => cache'[c] = cache[c]
    BY DEF IInv, TypeOK
  <1>4. CacheOK'  BY <1>3 DEF IInv, CacheOK, TypeOK
  <1>5. \A i \in 1..Len(lh) : lh[i] \in Block  BY SMTT(60) DEF IInv, TypeOK
  <1>6. LogOK'
    <2>1. ASSUME NEW p \in Proc, pc[p] = "write_log"
          PROVE  \A i \in 1..tail : logblk[i] = cache'[lh[i]]
      <3>1. \A q \in Proc : pc[q] # "install"  BY <2>1, Committer, ZenonT(30) DEF Commits
      <3>2. \A i \in 1..Len(lh) : lh[i] # b  BY <3>1, ZenonT(30) DEF IInv, LogOK
      <3> QED  BY <2>1, <1>3, <1>5, <3>2 DEF IInv, LogOK, TypeOK
    <2>2. ASSUME NEW p \in Proc, pc[p] = "install"
          PROVE  /\ \A i \in 1..tail : cache'[lh[i]] \in {NoData, logblk[i]}
                 /\ \A i \in tail+1..Len(lh) : logblk[i] = cache'[lh[i]]
      BY <2>2, <1>3, <1>5 DEF IInv, LogOK, TypeOK
    <2>3. /\ Distinct(lh)' = Distinct(lh) /\ Distinct(head)' = Distinct(head)
          /\ Installed(tail)' = Installed(tail)
      BY ZenonT(30) DEF Distinct, Installed
    <2> QED  BY <2>1, <2>2, <2>3, SMTT(60) DEF IInv, LogOK
  <1> QED  BY <1>1, <1>2, <1>4, <1>6 DEF IInv

\* A crash.
LEMMA CrashIInv == IInv /\ Crash => IInv'
  <1> SUFFICES ASSUME IInv, Crash PROVE IInv'  OBVIOUS
  <1> USE DEF Crash, disk
  <1>1. TypeOK'
    <2>1. /\ lh' \in Seq(Block) /\ cache' \in [Block -> Val \cup {NoData}]
          /\ buf' \in [Proc -> Block \cup {NoBlock}] /\ wrote' \in [Proc -> SUBSET Block]
      OBVIOUS
    <2>2. pc' \in [Proc -> {"idle", "begin", "sleep", "op", "check", "append",
                            "write_log", "install", "done", "panic"}]
      OBVIOUS
    <2> QED  BY <2>1, <2>2, ZenonT(30) DEF IInv, TypeOK
  <1>2. Active' = {}  BY DEF Active
  <1>3. ProcOK'  BY <1>2, FS_EmptySet DEF ProcOK, Commits
  <1>4. CacheOK'  BY DEF CacheOK
  <1>5. LogOK'  BY DEF IInv, LogOK, Distinct
  <1> QED  BY <1>1, <1>3, <1>4, <1>5 DEF IInv

\* Every step keeps the invariant.
LEMMA NextIInv == IInv /\ [Next]_vars => IInv'
  <1> SUFFICES ASSUME IInv, [Next]_vars PROVE IInv'  OBVIOUS
  <1>1. CASE Recovery
    BY <1>1, ReadHeadIInv, RecoverInstallIInv, RecoverEraseIInv DEF Recovery
  <1>2. ASSUME NEW p \in Proc, BeginOp(p) \/ EndOp(p) \/ Step(p) PROVE IInv'
    BY <1>2, BeginOpIInv, EndOpIInv, LogCheckIInv, LogAppendIInv, WriteLogIInv,
       WriteHeadIInv, CommitInstallIInv, CommitEraseIInv, EndCommitIInv DEF Step
  <1>3. ASSUME NEW p \in Proc, NEW b \in Block, NEW v \in Val, Modify(p, b, v) PROVE IInv'
    BY <1>3, ModifyIInv
  <1>4. ASSUME NEW b \in Block, Evict(b) PROVE IInv'
    BY <1>4, EvictIInv
  <1>5. CASE Crash  BY <1>5, CrashIInv, SMTT(60)
  <1>6. CASE UNCHANGED vars
    <2>1. TypeOK'  BY <1>6, ZenonT(30) DEF vars, IInv, TypeOK
    <2>2. ProcOK'  BY <1>6, ZenonT(30) DEF vars, IInv, ProcOK, Active, Commits
    <2>3. CacheOK'  BY <1>6, ZenonT(30) DEF vars, IInv, CacheOK, Blocks
    <2>4. /\ Distinct(lh)' = Distinct(lh) /\ Distinct(head)' = Distinct(head)
          /\ Installed(tail)' = Installed(tail)
      BY <1>6, ZenonT(30) DEF vars, Distinct, Installed
    <2>5. LogOK'  BY <1>6, <2>4, SMTT(60) DEF vars, IInv, LogOK
    <2> QED  BY <2>1, <2>2, <2>3, <2>5 DEF IInv
  <1> QED  BY <1>1, <1>2, <1>3, <1>4, <1>5, <1>6 DEF Next

\* Every step keeps the space of the log.
LEMMA NextSpace ==
  ASSUME Reserves, IInv, SpaceOK, [Next]_vars
  PROVE  SpaceOK'
  <1>0. TypeOK' /\ ProcOK'  BY NextIInv DEF IInv
  <1>1. CASE Recovery \/ Crash  BY <1>1, QuietSteps
  <1>2. ASSUME NEW p \in Proc, BeginOp(p) \/ EndOp(p) PROVE SpaceOK'
    BY <1>0, <1>2, BeginOpSpace, EndOpSpace
  <1>3. ASSUME NEW p \in Proc, Step(p) PROVE SpaceOK'
    BY <1>0, <1>3, LogCheckSpace, LogAppendSpace, QuietSteps DEF Step
  <1>4. ASSUME NEW p \in Proc, NEW b \in Block, NEW v \in Val, Modify(p, b, v)
        PROVE  SpaceOK'
    BY <1>0, <1>4, ModifySpace
  <1>5. ASSUME NEW b \in Block, Evict(b) PROVE SpaceOK'
    BY <1>5, IdleSpace DEF Evict, disk
  <1>6. CASE UNCHANGED vars  BY <1>6, IdleSpace DEF vars
  <1> QED  BY <1>1, <1>2, <1>3, <1>4, <1>5, <1>6 DEF Next

\* What recovery makes of a disk with an empty header, ...
LEMMA RecoveredEmpty ==
  ASSUME NEW hm, NEW lb, hm = [b \in Block |-> hm[b]]
  PROVE  Recovered(hm, <<>>, lb) = hm
  BY DEF Recovered

\* ... of a block of the log, ...
LEMMA RecoveredIn ==
  ASSUME NEW hm, NEW h \in Seq(Block), NEW lb, Distinct(h), NEW i \in 1..Len(h)
  PROVE  Recovered(hm, h, lb)[h[i]] = lb[i]
  <1>1. h[i] \in Block  OBVIOUS
  <1>2. (CHOOSE j \in 1..Len(h) : h[j] = h[i]) = i  BY DEF Distinct
  <1>3. \E j \in 1..Len(h) : h[j] = h[i]  OBVIOUS
  <1> QED  BY <1>1, <1>2, <1>3, ZenonT(30) DEF Recovered

\* ... and of another block.
LEMMA RecoveredOut ==
  ASSUME NEW hm, NEW h, NEW lb, NEW b \in Block, \A i \in 1..Len(h) : h[i] # b
  PROVE  Recovered(hm, h, lb)[b] = hm[b]
  BY DEF Recovered

\* Two disks recover to the same blocks if their headers agree and they differ
\* at most at home blocks that the log covers.
LEMMA RecoveredSame ==
  ASSUME NEW hm, NEW gm, NEW h \in Seq(Block), NEW lb,
         \A b \in Block : (\A i \in 1..Len(h) : h[i] # b) => hm[b] = gm[b]
  PROVE  Recovered(hm, h, lb) = Recovered(gm, h, lb)
  BY DEF Recovered

\* Where the whole log is at home, recovery changes nothing.
LEMMA RecoveredInstalled ==
  ASSUME NEW hm, NEW h \in Seq(Block), NEW lb, Distinct(h),
         hm = [b \in Block |-> hm[b]],
         \A i \in 1..Len(h) : hm[h[i]] = lb[i]
  PROVE  Recovered(hm, h, lb) = hm
  <1>1. \A b \in Block : Recovered(hm, h, lb)[b] = hm[b]
    <2> TAKE b \in Block
    <2>1. CASE \E i \in 1..Len(h) : h[i] = b
      <3>1. PICK i \in 1..Len(h) : h[i] = b  BY <2>1
      <3> QED  BY <3>1, RecoveredIn
    <2>2. CASE \A i \in 1..Len(h) : h[i] # b  BY <2>2, RecoveredOut
    <2> QED  BY <2>1, <2>2
  <1>2. Recovered(hm, h, lb) = [b \in Block |-> Recovered(hm, h, lb)[b]]
    BY DEF Recovered
  <1> QED  BY <1>1, <1>2

\* A turn of install_trans() does not change what recovery would make of the
\* disk.
LEMMA InstallKeepsDurable ==
  ASSUME IInv, InstallTrans, head = lh
  PROVE  Durable' = Durable
  <1>1. tail + 1 \in 1..Len(lh) /\ lh[tail + 1] \in Block
    BY InstallTarget DEF IInv, InstallTrans
  <1>2. head \in Seq(Block) /\ UNCHANGED <<head, logblk>>
    BY DEF IInv, TypeOK, InstallTrans
  <1>3. \A b \in Block : (\A i \in 1..Len(head) : head[i] # b) => home[b] = home'[b]
    BY <1>1, <1>2, SMTT(60) DEF IInv, TypeOK, InstallTrans
  <1>4. Recovered(home, head, logblk) = Recovered(home', head, logblk)
    BY <1>2, <1>3, RecoveredSame
  <1> QED  BY <1>2, <1>4 DEF Durable

\* Readers see the same blocks after a step that changes neither.
LEMMA CurrentFrame ==
  ASSUME UNCHANGED <<home, head, logblk, cache, boot>>
  PROVE  Durable' = Durable /\ Current' = Current
  BY DEF Durable, Current, Contents

\* Recovery changes nothing that Journal.tla sees.
LEMMA RecoveryStutters == IInv /\ Recovery => UNCHANGED <<Durable, Current, Active>>
  <1> SUFFICES ASSUME IInv, Recovery PROVE UNCHANGED <<Durable, Current, Active>>
    OBVIOUS
  <1>0. Active' = Active
    BY DEF Active, Recovery, ReadHead, RecoverInstall, RecoverErase
  <1>1. CASE ReadHead
    BY <1>0, <1>1 DEF ReadHead, Durable, Current, disk
  <1>2. CASE RecoverInstall
    <2> USE DEF RecoverInstall, InstallTrans
    <2>1. head = lh  BY <1>2 DEF IInv, LogOK
    <2>4. Durable' = Durable  BY <1>2, <2>1, InstallKeepsDurable
    <2> QED  BY <1>0, <1>2, <2>4 DEF Current
  <1>3. CASE RecoverErase
    <2> USE DEF RecoverErase, Erase
    <2>1. /\ lh = head /\ head \in Seq(Block) /\ Distinct(head)
          /\ \A i \in 1..Len(head) : home[head[i]] = logblk[i]
      BY <1>3 DEF IInv, LogOK, Installed, TypeOK
    <2>2. home = [b \in Block |-> home[b]]  BY DEF IInv, TypeOK
    <2>3. Durable = home  BY <2>1, <2>2, RecoveredInstalled DEF Durable
    <2>4. Durable' = home
      <3>1. head' = <<>> /\ home' = home /\ logblk' = logblk  BY <1>3
      <3> QED  BY <3>1, <2>2, RecoveredEmpty DEF Durable
    <2>5. Current' = home
      <3>1. \A b \in Block : cache[b] \in {NoData, home[b]}
        <4>1. dirty = {} /\ \A p \in Proc : buf[p] = NoBlock
          BY <1>3, ZenonT(60) DEF IInv, CacheOK, ProcOK
        <4> QED  BY <4>1, LogAssumption DEF IInv, CacheOK, LogAssumption
      <3>2. \A b \in Block : Contents(b)' = home[b]
        BY <1>3, <3>1, ZenonT(30) DEF Contents
      <3> QED  BY <1>3, <2>2, <3>2 DEF Current
    <2>6. Current = Durable  BY <1>3 DEF Current
    <2> QED  BY <1>0, <2>3, <2>4, <2>5, <2>6, SMTT(60)
  <1> QED  BY <1>1, <1>2, <1>3 DEF Recovery

\* begin_op() that does not sleep begins an operation.
LEMMA BeginOpBegins ==
  ASSUME NEW p \in Proc
  PROVE  IInv /\ BeginOp(p) => J!Begin(p) \/ UNCHANGED <<Durable, Current, Active>>
  <1> SUFFICES ASSUME IInv, BeginOp(p)
               PROVE  J!Begin(p) \/ UNCHANGED <<Durable, Current, Active>>
    OBVIOUS
  <1> USE DEF BeginOp, At, GoTo
  <1>1. Durable' = Durable /\ Current' = Current  BY CurrentFrame DEF disk
  <1>2. p \notin Active  BY DEF Active
  <1>3. CASE pc' = [pc EXCEPT ![p] = "sleep"]
    <2>1. Active' = Active  BY <1>2, <1>3 DEF Active, IInv, TypeOK
    <2> QED  BY <1>1, <2>1
  <1>4. CASE pc' = [pc EXCEPT ![p] = "op"]
    <2>1. Active' = Active \cup {p}  BY <1>4 DEF Active, IInv, TypeOK
    <2> QED  BY <1>1, <1>2, <2>1 DEF J!Begin
  <1> QED  BY <1>3, <1>4

\* end_op() ends one.
LEMMA EndOpEnds == ASSUME NEW p \in Proc PROVE IInv /\ EndOp(p) => J!End(p)
  <1> SUFFICES ASSUME IInv, EndOp(p) PROVE J!End(p)  OBVIOUS
  <1> USE DEF EndOp, At
  <1>1. Durable' = Durable /\ Current' = Current  BY CurrentFrame DEF disk
  <1>2. p \in Active /\ ~committing  BY DEF Active, IInv, ProcOK
  <1>3. Active' = Active \ {p}
    <2>1. CASE outstanding = 1
      <3>1. PICK l \in {"done", "write_log"} : pc' = [pc EXCEPT ![p] = l]
        BY <1>2, <2>1 DEF GoTo
      <3> QED  BY <3>1 DEF Active, IInv, TypeOK
    <2>2. CASE outstanding # 1
      <3>1. pc' = Wakeup([pc EXCEPT ![p] = "idle"])  BY <1>2, <2>2
      <3>2. /\ pc'[p] = "idle"
            /\ \A q \in Proc : q # p => pc'[q] = IF pc[q] = "sleep" THEN "begin" ELSE pc[q]
        BY <3>1, WakeupFrame, ZenonT(60) DEF IInv
      <3> QED  BY <3>2 DEF Active
    <2> QED  BY <2>1, <2>2
  <1> QED  BY <1>1, <1>2, <1>3 DEF J!End

\* A changed buffer is a write.
LEMMA ModifyWrites ==
  ASSUME NEW p \in Proc, NEW b \in Block, NEW v \in Val
  PROVE  IInv /\ Modify(p, b, v) => J!Write(p, b, v)
  <1> SUFFICES ASSUME IInv, Modify(p, b, v) PROVE J!Write(p, b, v)  OBVIOUS
  <1> USE DEF Modify, At, GoTo, disk
  <1>1. Durable' = Durable  BY DEF Durable
  <1>2. p \in Active /\ Active' = Active  BY DEF Active, IInv, TypeOK
  <1>3. v # NoData  BY LogAssumption, ZenonT(60) DEF LogAssumption
  <1>4. Contents(b)' = v  BY <1>3 DEF Contents, IInv, TypeOK
  <1>5. \A c \in Block : c # b => Contents(c)' = Contents(c)
    BY DEF Contents, IInv, TypeOK
  <1>6. Current' = [Current EXCEPT ![b] = v]  BY <1>4, <1>5, ZenonT(30) DEF Current
  <1> QED  BY <1>1, <1>2, <1>6 DEF J!Write

\* Writing the header commits; the other steps of log_write() and commit()
\* change nothing that Journal.tla sees.
LEMMA StepCommits ==
  ASSUME NEW p \in Proc
  PROVE  IInv /\ Step(p) => J!Commit \/ UNCHANGED <<Durable, Current, Active>>
  <1> SUFFICES ASSUME IInv, Step(p)
               PROVE  J!Commit \/ UNCHANGED <<Durable, Current, Active>>
    OBVIOUS
  <1> USE DEF At
  <1>1. CASE LogCheck(p)
    <2>1. Durable' = Durable /\ Current' = Current
      BY <1>1, CurrentFrame DEF LogCheck, disk
    <2>2. PICK l \in {"append", "panic"} : pc' = [pc EXCEPT ![p] = l]
      BY <1>1 DEF LogCheck, GoTo
    <2>3. Active' = Active  BY <1>1, <2>2 DEF LogCheck, Active, IInv, TypeOK
    <2> QED  BY <2>1, <2>3
  <1>2. CASE LogAppend(p)
    <2>1. Durable' = Durable /\ Current' = Current
      BY <1>2, CurrentFrame DEF LogAppend, disk
    <2>2. Active' = Active  BY <1>2 DEF LogAppend, GoTo, Active, IInv, TypeOK
    <2> QED  BY <2>1, <2>2
  <1>3. CASE WriteLog(p)
    <2> USE <1>3 DEF WriteLog
    <2>1. \A q \in Proc : pc[q] # "install"  BY Committer DEF Commits
    <2>2. head = <<>> /\ home = [b \in Block |-> home[b]]
      BY <2>1 DEF IInv, LogOK, TypeOK
    <2>3. Durable = home  BY <2>2, RecoveredEmpty DEF Durable
    <2>4. Durable' = home
      <3>1. head' = <<>> /\ home' = home  BY <2>2
      <3> QED  BY <3>1, <2>2, RecoveredEmpty DEF Durable
    <2>5. Current' = Current  BY DEF Current, Contents
    <2>6. Active' = Active  BY DEF Active
    <2> QED  BY <2>3, <2>4, <2>5, <2>6
  <1>4. CASE WriteHead(p)
    <2> USE <1>4 DEF WriteHead, GoTo
    <2>1. /\ Active = {} /\ boot = "up" /\ \A q \in Proc : buf[q] = NoBlock
          /\ \A q \in Proc : q # p => ~Commits(q)
      BY Committer DEF Commits
    <2>2. \A q \in Proc : pc[q] # "install"  BY <2>1 DEF Commits
    <2>3. Active' = {}  BY <2>1 DEF Active, IInv, TypeOK
    <2>4. Current' = Current  BY SMTT(60) DEF Current, Contents
    <2>5. /\ \A i \in 1..Len(lh) : lh[i] \in dirty /\ logblk[i] = cache[lh[i]]
          /\ lh \in Seq(Block) /\ Distinct(lh)
      BY <2>2 DEF IInv, LogOK, TypeOK
    <2>6. \A i \in 1..Len(lh) : logblk[i] = Contents(lh[i])
      <3>1. \A b \in dirty : cache[b] # NoData
        BY LogAssumption, ZenonT(60) DEF IInv, CacheOK, LogAssumption
      <3> QED  BY <2>5, <3>1, ZenonT(60) DEF Contents
    <2>7. \A b \in Block : (\A i \in 1..Len(lh) : lh[i] # b) => home[b] = Contents(b)
      <3>1. \A b \in Block, q \in Proc : buf[q] # b
        BY <2>1, LogAssumption, SMTT(60) DEF LogAssumption
      <3>2. \A b \in Block : (\A i \in 1..Len(lh) : lh[i] # b) => b \notin dirty
        BY DEF IInv, CacheOK, Blocks
      <3>3. \A b \in Block : b \notin dirty => cache[b] \in {NoData, home[b]}
        BY <3>1 DEF IInv, CacheOK
      <3> QED  BY <3>2, <3>3, Zenon DEF Contents
    <2>8. \A b \in Block : Recovered(home, lh, logblk)[b] = Contents(b)
      <3> SUFFICES ASSUME NEW b \in Block
                   PROVE  Recovered(home, lh, logblk)[b] = Contents(b)
        BY ZenonT(30)
      <3>1. CASE \E i \in 1..Len(lh) : lh[i] = b
        <4>1. PICK i \in 1..Len(lh) : lh[i] = b  BY <3>1, SMTT(60)
        <4> QED  BY <4>1, <2>5, <2>6, RecoveredIn
      <3>2. CASE \A i \in 1..Len(lh) : lh[i] # b  BY <3>2, <2>7, RecoveredOut
      <3> QED  BY <3>1, <3>2, ZenonT(30)
    <2>9. Durable' = Recovered(home, lh, logblk)  BY SMTT(60) DEF Durable
    <2>10. Recovered(home, lh, logblk)
             = [b \in Block |-> Recovered(home, lh, logblk)[b]]
      BY DEF Recovered
    <2>11. Durable' = Current  BY <2>1, <2>8, <2>9, <2>10 DEF Current
    <2> QED  BY <2>1, <2>3, <2>4, <2>11 DEF J!Commit
  <1>5. CASE CommitInstall(p)
    <2> USE <1>5 DEF CommitInstall, InstallTrans
    <2>1. tail + 1 \in 1..Len(lh) /\ lh[tail + 1] \in Block
      BY InstallTarget DEF IInv
    <2>4. Durable' = Durable
      <3>1. head = lh  BY DEF IInv, LogOK
      <3> QED  BY <3>1, InstallKeepsDurable, SMTT(60)
    <2>5. Active' = Active  BY DEF Active
    <2>6. Current' = Current
      <3>1. logblk[tail + 1] = cache[lh[tail + 1]] /\ lh[tail + 1] \in dirty
        BY <2>1 DEF IInv, LogOK, TypeOK
      <3>2. cache[lh[tail + 1]] # NoData
        BY <3>1, LogAssumption, ZenonT(60) DEF IInv, CacheOK, LogAssumption
      <3>3. \A b \in Block : Contents(b)' = Contents(b)
        BY <2>1, <3>1, <3>2 DEF Contents, IInv, TypeOK
      <3> QED  BY <3>3, SMTT(60) DEF Current
    <2> QED  BY <2>4, <2>5, <2>6
  <1>6. CASE CommitErase(p)
    <2> USE <1>6 DEF CommitErase, Erase, GoTo
    <2>1. /\ lh = head /\ head \in Seq(Block) /\ Distinct(head)
          /\ \A i \in 1..Len(head) : home[head[i]] = logblk[i]
      BY DEF IInv, LogOK, Installed, TypeOK
    <2>2. home = [b \in Block |-> home[b]]  BY DEF IInv, TypeOK
    <2>3. Durable = home  BY <2>1, <2>2, RecoveredInstalled DEF Durable
    <2>4. Durable' = home
      <3>1. head' = <<>> /\ home' = home /\ logblk' = logblk  OBVIOUS
      <3> QED  BY <3>1, <2>2, RecoveredEmpty DEF Durable
    <2>5. Current' = Current  BY DEF Current, Contents
    <2>6. Active' = Active  BY DEF Active, IInv, TypeOK
    <2> QED  BY <2>3, <2>4, <2>5, <2>6, SMTT(60)
  <1>7. CASE EndCommit(p)
    <2>1. Durable' = Durable /\ Current' = Current
      BY <1>7, CurrentFrame DEF EndCommit, disk
    <2>2. /\ pc'[p] = "idle"
          /\ \A q \in Proc : q # p => pc'[q] = IF pc[q] = "sleep" THEN "begin" ELSE pc[q]
      BY <1>7, WakeupFrame, ZenonT(30) DEF EndCommit, IInv
    <2>3. Active' = Active  BY <1>7, <2>2, ZenonT(30) DEF EndCommit, Active
    <2> QED  BY <2>1, <2>3
  <1> QED  BY <1>1, <1>2, <1>3, <1>4, <1>5, <1>6, <1>7 DEF Step

\* A recycled buffer has the contents of its home.
LEMMA EvictStutters ==
  ASSUME NEW b \in Block PROVE IInv /\ Evict(b) => UNCHANGED <<Durable, Current, Active>>
  <1> SUFFICES ASSUME IInv, Evict(b) PROVE UNCHANGED <<Durable, Current, Active>>
    OBVIOUS
  <1> USE DEF Evict, disk
  <1>1. cache[b] = home[b]  BY ZenonT(30) DEF IInv, CacheOK
  <1>2. \A c \in Block : Contents(c)' = Contents(c)
    BY <1>1 DEF Contents, IInv, TypeOK
  <1>3. Durable' = Durable /\ Active' = Active  BY ZenonT(30) DEF Durable, Active
  <1>4. Current' = Current  BY <1>2 DEF Current
  <1> QED  BY <1>3, <1>4

\* A crash of the log is a crash of Journal.tla.
LEMMA CrashCrashes == Crash => J!Crash
  BY DEF Crash, J!Crash, Durable, Current, Active, disk

\* Every step of the log is a step of Journal.tla or changes nothing it sees.
LEMMA NextRefines == IInv /\ [Next]_vars => [J!JournalNext]_(J!journalVars)
  <1> SUFFICES ASSUME IInv, [Next]_vars
               PROVE  J!JournalNext \/ UNCHANGED <<Durable, Current, Active>>
    BY DEF J!journalVars
  <1>1. CASE Recovery  BY <1>1, RecoveryStutters
  <1>2. ASSUME NEW p \in Proc, BeginOp(p) \/ EndOp(p) \/ Step(p)
        PROVE  J!JournalNext \/ UNCHANGED <<Durable, Current, Active>>
    BY <1>2, BeginOpBegins, EndOpEnds, StepCommits DEF J!JournalNext
  <1>3. ASSUME NEW p \in Proc, NEW b \in Block, NEW v \in Val, Modify(p, b, v)
        PROVE  J!JournalNext
    BY <1>3, ModifyWrites DEF J!JournalNext
  <1>4. ASSUME NEW b \in Block, Evict(b) PROVE UNCHANGED <<Durable, Current, Active>>
    BY <1>4, EvictStutters
  <1>5. CASE Crash  BY <1>5, CrashCrashes, SMTT(60) DEF J!JournalNext
  <1>6. CASE UNCHANGED vars
    BY <1>6 DEF vars, Durable, Current, Active, Contents
  <1> QED  BY <1>1, <1>2, <1>3, <1>4, <1>5, <1>6 DEF Next

\* At boot the header is empty: the disk is what readers see.
LEMMA InitRefines == Init => J!JournalInit
  <1> SUFFICES ASSUME Init PROVE J!JournalInit  OBVIOUS
  <1>1. Durable = home
    <2>1. head = <<>> /\ home = [b \in Block |-> home[b]]  BY DEF Init
    <2> QED  BY <2>1, RecoveredEmpty DEF Durable
  <1>2. Active = {} /\ Current = Durable  BY DEF Init, Active, Current
  <1> QED  BY <1>1, <1>2 DEF J!JournalInit, Init

-----------------------------------------------------------------------------
\* The invariant holds in every behaviour of the log, crashes included.
THEOREM LogIInv == Spec => []IInv
  BY InitIInv, NextIInv, PTL DEF Spec

\* Types of log.c's variables.
THEOREM LogTypeOK == Spec => []TypeOK
  BY LogIInv, PTL DEF IInv

\* log.c implements Journal.tla: whatever the interleaving and wherever the
\* power fails, also in recovery, the disk recovers to the blocks of the last
\* commit, and no commit contains half an operation.
THEOREM LogImplementsJournal == Spec => ImplementsJournal
  <1>1. Init => J!JournalInit  BY InitRefines
  <1>2. IInv /\ [Next]_vars => [J!JournalNext]_(J!journalVars)  BY NextRefines
  <1> QED  BY <1>1, <1>2, LogIInv, PTL DEF Spec, ImplementsJournal, J!JournalSpec

\* begin_op()'s reservation is enough when the sizes satisfy Reserves: the log
\* stays within its blocks, no panic of log.c is reached, and whoever sleeps in
\* begin_op() has a commit or an operation to wait for.
THEOREM LogSpaceHolds == ASSUME Reserves PROVE Spec => []LogHolds
  <1>1. Init => SpaceOK  BY InitSpace
  <1>2. IInv /\ SpaceOK /\ [Next]_vars => SpaceOK'  BY NextSpace
  <1>3. IInv /\ SpaceOK => LogHolds
    <2> SUFFICES ASSUME IInv, SpaceOK PROVE LogHolds  OBVIOUS
    <2>1. Len(lh) \in Nat /\ nlog \in Nat /\ LOGSIZE \in Nat /\ Cardinality(Room) \in Nat
      BY LogAssumption, RoomBound DEF LogAssumption, IInv, TypeOK
    <2>2. LogFits  BY <2>1 DEF LogFits, SpaceOK, Reserves
    <2> QED  BY <2>2 DEF LogHolds, SpaceOK
  <1> QED  BY <1>1, <1>2, <1>3, LogIInv, PTL DEF Spec

\* Home blocks are written only under a header that names them.
THEOREM LogWriteAhead == Spec => WriteAhead
  <1> DEFINE Ahead == \A b \in Block : home'[b] # home[b] => b \in Blocks(head)
  <1>1. IInv /\ [Next]_vars => [Ahead]_vars
    <2> SUFFICES ASSUME IInv, Next, NEW b \in Block, home'[b] # home[b]
                 PROVE  b \in Blocks(head)
      OBVIOUS
    <2>1. InstallTrans /\ (boot = "install" \/ \E p \in Proc : pc[p] = "install")
      BY ZenonT(60) DEF Next, Recovery, ReadHead, RecoverInstall, RecoverErase, Erase, BeginOp, EndOp,
             Step, LogCheck, LogAppend, WriteLog, WriteHead, CommitInstall, CommitErase,
             EndCommit, Modify, Evict, Crash, disk, At
    <2>2. head = lh  BY <2>1, SMTT(60) DEF IInv, LogOK
    <2>3. b = lh[tail + 1] /\ tail + 1 \in 1..Len(lh)
      BY <2>1, InstallTarget DEF InstallTrans, IInv, TypeOK
    <2> QED  BY <2>2, <2>3 DEF Blocks
  <1> QED  BY <1>1, LogIInv, PTL DEF Spec, WriteAhead

\* When nothing is under way, what the calls have written is on the disk.
THEOREM LogDurableWhenQuiet == Spec => []DurableWhenQuiet
  <1>1. IInv => DurableWhenQuiet
    <2> SUFFICES ASSUME IInv, boot = "up", outstanding = 0, ~committing
                 PROVE  lh = <<>> /\ Durable = Current
      BY SMTT(60) DEF DurableWhenQuiet
    <2>1. lh = <<>> /\ dirty = {}  BY SMTT(60) DEF IInv, LogOK, CacheOK, Blocks
    <2>2. head = <<>>  BY DEF IInv, LogOK, ProcOK, Commits
    <2>3. Active = {}  BY ActiveFinite, FS_EmptySet, ZenonT(30) DEF IInv, ProcOK
    <2>4. \A b \in Block, p \in Proc : buf[p] # b
      BY <2>3, LogAssumption DEF IInv, ProcOK, Active, LogAssumption
    <2>5. \A b \in Block : Contents(b) = home[b]
      BY <2>1, <2>4 DEF Contents, IInv, CacheOK
    <2>6. home = [b \in Block |-> home[b]]  BY DEF IInv, TypeOK
    <2>7. Durable = home  BY <2>2, <2>6, RecoveredEmpty DEF Durable
    <2> QED  BY <2>1, <2>5, <2>6, <2>7 DEF Current
  <1> QED  BY <1>1, LogIInv, PTL
=============================================================================
