--------------------------- MODULE SpinLockProofs ---------------------------
(***************************************************************************)
(* The inductive invariant of SpinLock, for any number of CPUs, locks and  *)
(* nested interrupts; that every step keeps it; the safety properties; and *)
(* that SpinLock implements Mutex.                                         *)
(***************************************************************************)
EXTENDS SpinLock, FiniteSetTheorems, TLAPS

\* The steps of a context at which its pushcli is not yet undone although the
\* lock is not in held.
Pending(c, k) ==
  IF \/ call[c][k] = "acquire" /\ pc[c][k] \in {"holding", "holding2", "spin", "setcpu"}
     \/ pc[c][k] \in {"unlock", "popcli"}
    THEN 1 ELSE 0

\* What a context's position says of its call, its argument and its locks.
ContextOK(c, k) ==
  /\ IsFiniteSet(held[c][k])
  /\ pc[c][k] = "run" => call[c][k] = "none"
  /\ pc[c][k] \in {"cli", "spin", "setcpu"} => call[c][k] = "acquire"
  /\ pc[c][k] \in {"clearcpu", "unlock", "popcli"} => call[c][k] = "release"
  /\ pc[c][k] \in {"holding", "holding2"} => call[c][k] # "none"
  /\ pc[c][k] # "run" => lk[c][k] \in Lock
  /\ call[c][k] = "acquire" => lk[c][k] \notin held[c][k]
  /\ call[c][k] = "release" =>
       (lk[c][k] \in held[c][k] <=> pc[c][k] \in {"holding", "holding2", "clearcpu"})
  /\ call[c][k] = "release" /\ pc[c][k] = "holding2" => locked[lk[c][k]]
  /\ pc[c][k] # "panic"

\* Interrupt flags and the counting of pushcli: the running context has undone
\* all but one pushcli per lock; the others hold nothing.
CliOK(c) ==
  /\ level[c] \in {0, 1}
  /\ ncli[c] = Cardinality(held[c][level[c]]) + Pending(c, level[c])
  /\ iflag[c] => /\ level[c] = 0
                 /\ held[c][0] = {}
                 /\ pc[c][0] \in {"run", "cli"}
  /\ level[c] # 0 /\ pc[c][level[c]] = "cli" => ~eflags[c][level[c]]
  /\ level[c] # 0 /\ ncli[c] # 0 => ~intena[c]
  /\ \A k \in Level : k # level[c] =>
       held[c][k] = {} /\ pc[c][k] \in {"run", "cli"} 
  /\ \A k \in Level : k # level[c] /\ k # 0 => pc[c][k] = "run"

\* The lock word and the owner field agree with who owns the lock.
LockOK ==
  /\ \A c \in CPU, k \in Level, l \in Lock : Owns(c, k, l) => locked[l]
  /\ \A c \in CPU, k \in Level, l \in Lock : l \in held[c][k] => cpu[l] = c
  /\ \A c \in CPU, l \in Lock : cpu[l] = c => l \in held[c][level[c]]

\* The inductive invariant.
IInv ==
  /\ TypeOK
  /\ \A c \in CPU : CliOK(c)
  /\ \A c \in CPU, k \in Level : ContextOK(c, k)
  /\ LockOK
  /\ MutualExclusion

-----------------------------------------------------------------------------
\* Both provers, with time.
USE SMTT(30), ZenonT(30)

\* Facts about cardinalities in the form the steps below need them.
LEMMA EmptyCard == Cardinality({}) = 0
  BY FS_EmptySet

\* Cardinality of a set with one more element.
LEMMA AddCard ==
  ASSUME NEW S, IsFiniteSet(S), NEW x, x \notin S
  PROVE  IsFiniteSet(S \cup {x}) /\ Cardinality(S \cup {x}) = Cardinality(S) + 1
  BY FS_AddElement

\* Cardinality of a set with one element less.
LEMMA RemoveCard ==
  ASSUME NEW S, IsFiniteSet(S), NEW x, x \in S
  PROVE  /\ IsFiniteSet(S \ {x})
         /\ Cardinality(S \ {x}) = Cardinality(S) - 1
         /\ Cardinality(S) \in Nat \ {0}
  BY FS_RemoveElement, FS_CardinalityType, FS_EmptySet

\* Every lock function starts with all its locks free and interrupts off.
LEMMA InitIInv == Init => IInv
  BY LockAssumption, FS_EmptySet
  DEF Init, IInv, TypeOK, CliOK, ContextOK, LockOK, MutualExclusion, Owns, Pending,
      Level, Label

\* CliOK of a CPU survives a step that leaves its flags, its locks, its level
\* and the number of its pending pushcli alone.
LEMMA CliFrame ==
  ASSUME TypeOK, NEW d \in CPU, CliOK(d),
         ncli'[d] = ncli[d], intena'[d] = intena[d], iflag'[d] = iflag[d],
         level'[d] = level[d], held'[d] = held[d],
         eflags'[d] = eflags[d],
         \A k \in Level : k # level[d] => pc'[d][k] = pc[d][k],
         Pending(d, level[d])' = Pending(d, level[d]),
         pc'[d] = pc[d] \/ (~iflag[d] /\ pc'[d][level[d]] # "cli")
  PROVE  CliOK(d)'
  <1>1. ncli'[d] = Cardinality(held'[d][level'[d]]) + Pending(d, level[d])'
    BY DEF CliOK
  <1>2. iflag'[d] => level'[d] = 0 /\ held'[d][0] = {} /\ pc'[d][0] \in {"run", "cli"}
    BY DEF CliOK
  <1>3. level'[d] # 0 /\ pc'[d][level'[d]] = "cli" => ~eflags'[d][level'[d]]
    BY DEF CliOK
  <1>4. level'[d] # 0 /\ ncli'[d] # 0 => ~intena'[d]
    BY DEF CliOK
  <1>5. \A k \in Level : k # level'[d] => held'[d][k] = {} /\ pc'[d][k] \in {"run", "cli"}
    BY DEF CliOK
  <1>6. \A k \in Level : k # level'[d] /\ k # 0 => pc'[d][k] = "run"
    BY DEF CliOK
  <1>7. level'[d] \in {0, 1}
    BY DEF CliOK
  <1>8. QED
    BY <1>1, <1>2, <1>7 DEF CliOK

\* CliOK of the CPUs that do not take the step.
LEMMA CliOthers ==
  ASSUME IInv, NEW c \in CPU, NEW d \in CPU,
         ncli'[d] = ncli[d], intena'[d] = intena[d], iflag'[d] = iflag[d],
         level'[d] = level[d], held'[d] = held[d], call'[d] = call[d],
         eflags'[d] = eflags[d], pc'[d] = pc[d]
  PROVE  CliOK(d)'
  <1>1. Pending(d, level[d])' = Pending(d, level[d])
    BY DEF Pending
  <1>2. QED
    BY <1>1, CliFrame DEF IInv

\* Every step but the successful xchg and the store that frees the lock leaves
\* the owners alone.
LEMMA OwnsStutter ==
  ASSUME IInv, NEW c \in CPU,
         \/ Pushcli(c) \/ HoldingLocked(c) \/ HoldingCpu(c) \/ SetCpu(c) \/ ClearCpu(c)
         \/ Popcli(c) \/ Sti(c) \/ Interrupt(c) \/ Iret(c)
         \/ \E m \in Lock : AcquireCall(c, m) \/ ReleaseCall(c, m)
  PROVE  \A d \in CPU, k \in Level, l \in Lock : Owns(d, k, l)' <=> Owns(d, k, l)
  <1>1. CASE Pushcli(c)
    BY <1>1 DEF IInv, TypeOK, Pushcli, At, GoTo, Owns
  <1>2. CASE HoldingLocked(c)
    <2>1. PICK b \in Label : GoTo(c, b) /\ b \notin {"setcpu", "unlock"}
      BY <1>2, ZenonT(60) DEF HoldingLocked, Holding, Label
    <2>2. QED
      BY <1>2, <2>1, SMTT(60) DEF IInv, TypeOK, HoldingLocked, At, GoTo, Owns
  <1>3. CASE HoldingCpu(c)
    <2>1. PICK b \in Label : GoTo(c, b) /\ b \notin {"setcpu", "unlock"}
      BY <1>3, ZenonT(60) DEF HoldingCpu, Holding, Label
    <2>2. QED
      BY <1>3, <2>1 DEF IInv, TypeOK, HoldingCpu, At, GoTo, Owns
  <1>4. CASE SetCpu(c)
    BY <1>4 DEF IInv, TypeOK, SetCpu, At, GoTo, Arg, Owns
  <1>5. CASE ClearCpu(c)
    <2>1. Arg(c) \in held[c][level[c]]
      BY <1>5, Zenon DEF IInv, TypeOK, ContextOK, ClearCpu, At, Arg
    <2>2. QED
      BY <1>5, <2>1 DEF IInv, TypeOK, ClearCpu, At, GoTo, Arg, Owns
  <1>6. CASE Popcli(c)
    BY <1>6 DEF IInv, TypeOK, Popcli, At, GoTo, Owns
  <1>7. CASE Sti(c)
    BY <1>7, Zenon DEF Sti, Owns
  <1>8. CASE Interrupt(c)
    BY <1>8, Zenon DEF Interrupt, Owns
  <1>9. CASE Iret(c)
    BY <1>9, Zenon DEF Iret, Owns
  <1>10. ASSUME NEW m \in Lock, AcquireCall(c, m)
        PROVE  \A d \in CPU, k \in Level, l \in Lock : Owns(d, k, l)' <=> Owns(d, k, l)
    BY <1>10, SMTT(60) DEF IInv, TypeOK, AcquireCall, At, GoTo, Owns
  <1>11. ASSUME NEW m \in Lock, ReleaseCall(c, m)
        PROVE  \A d \in CPU, k \in Level, l \in Lock : Owns(d, k, l)' <=> Owns(d, k, l)
    BY <1>11 DEF IInv, TypeOK, ReleaseCall, At, GoTo, Owns
  <1>12. QED
    BY <1>11, <1>1, <1>2, <1>3, <1>4, <1>5, <1>6, <1>7, <1>8, <1>9, <1>10, SMTT(60)

\* What is known of a context stays when neither it nor a lock word changes.
LEMMA ContextKept ==
  ASSUME NEW d, NEW k, ContextOK(d, k), locked' = locked,
         pc'[d][k] = pc[d][k], call'[d][k] = call[d][k], lk'[d][k] = lk[d][k],
         held'[d][k] = held[d][k]
  PROVE  ContextOK(d, k)'
  BY DEF ContextOK

\* A step that moves no context and changes no lock word keeps what is known of
\* the contexts.
LEMMA ContextsKept ==
  ASSUME IInv, UNCHANGED <<pc, call, lk, held, locked>>
  PROVE  \A d \in CPU, k \in Level : ContextOK(d, k)'
  <1>1. SUFFICES ASSUME NEW d \in CPU, NEW k \in Level PROVE ContextOK(d, k)'
    OBVIOUS
  <1>2. ContextOK(d, k)
    BY DEF IInv
  <1>3. QED
    BY <1>2 DEF ContextOK

\* A step that changes no owner, no lock word and no owner field, and moves a
\* CPU to another level only when its level holds no lock, keeps the facts about
\* the locks.
LEMMA LocksKept ==
  ASSUME IInv, UNCHANGED <<locked, cpu, held>>,
         \A d \in CPU : level'[d] = level[d] \/ held[d][level[d]] = {},
         \A d \in CPU, k \in Level, l \in Lock : Owns(d, k, l)' <=> Owns(d, k, l)
  PROVE  LockOK' /\ MutualExclusion'
  <1>1. \A d \in CPU, k \in Level, l \in Lock : Owns(d, k, l)' => locked'[l]
    BY DEF IInv, LockOK
  <1>2. /\ \A d \in CPU, k \in Level, l \in Lock : l \in held'[d][k] => cpu'[l] = d
        /\ \A d \in CPU, l \in Lock : cpu'[l] = d => l \in held'[d][level'[d]]
    BY DEF IInv, LockOK
  <1>3. MutualExclusion'
    BY DEF IInv, MutualExclusion
  <1>4. QED
    BY <1>1, <1>2, <1>3, Zenon DEF LockOK

\* pushcli() keeps the invariant.
LEMMA PushcliStep ==
  ASSUME IInv, NEW c \in CPU, Pushcli(c)
  PROVE  IInv'
  <1>1. TypeOK'
    BY LockAssumption DEF IInv, TypeOK, Pushcli, GoTo, Label
  <1>2. \A d \in CPU : CliOK(d)'
    <2>1. ASSUME NEW d \in CPU, d # c PROVE CliOK(d)'
      BY <2>1, CliOthers, ZenonT(60) DEF IInv, TypeOK, Pushcli, GoTo, Holding
    <2>2. CliOK(c)'
      <3>1. Pending(c, level[c])' = 1 /\ Pending(c, level[c]) = 0
        BY LockAssumption DEF IInv, TypeOK, Pushcli, At, GoTo, ContextOK, Pending, Level
      <3>2. /\ level' = level /\ held' = held /\ ncli'[c] = ncli[c] + 1
            /\ Cardinality(held[c][level[c]]) \in Nat
        BY FS_CardinalityType DEF IInv, TypeOK, Pushcli, ContextOK
      <3>3. ncli'[c] = Cardinality(held'[c][level'[c]]) + Pending(c, level[c])'
        BY <3>1, <3>2 DEF IInv, CliOK
      <3>4. level[c] # 0 => ~intena'[c]
        BY <3>1, <3>2, SMTT(60) DEF IInv, TypeOK, CliOK, Pushcli, At, Level
      <3>5. QED
        BY <3>3, <3>4 DEF IInv, TypeOK, CliOK, Pushcli, GoTo
    <2>3. QED
      BY <2>1, <2>2
  <1>3. \A d \in CPU, k \in Level : ContextOK(d, k)'
    BY DEF IInv, Pushcli, At, GoTo, ContextOK, MutualExclusion
  <1>4. LockOK'
    BY DEF IInv, Pushcli, GoTo, LockOK, Owns
  <1>5. MutualExclusion'
    BY DEF IInv, Pushcli, GoTo, MutualExclusion, Owns
  <1>6. QED
    BY <1>1, <1>2, <1>3, <1>4, <1>5 DEF IInv

\* holding()'s load of lk->locked keeps it.
LEMMA HoldingLockedStep ==
  ASSUME IInv, NEW c \in CPU, HoldingLocked(c)
  PROVE  IInv'
  <1>0. /\ UNCHANGED <<locked, cpu, ncli, intena, iflag, level, call, lk, eflags, held>>
        /\ \E a \in {"spin", "holding2", "clearcpu"} :
             /\ GoTo(c, a)
             /\ a = "spin" => call[c][level[c]] = "acquire"
             /\ a = "clearcpu" => call[c][level[c]] = "release"
             /\ a = "holding2" => locked[Arg(c)]
        /\ pc[c][level[c]] \in {"holding", "holding2"}
    BY LockAssumption DEF IInv, TypeOK, HoldingLocked, At, GoTo, Arg, Holding, ContextOK, CliOK, LockOK, Owns, Level
  <1>1. TypeOK'
    BY <1>0, LockAssumption DEF IInv, TypeOK, At, GoTo, Arg, ContextOK, CliOK, Level, Label
  <1>2. \A d \in CPU : CliOK(d)'
    <2>1. ASSUME NEW d \in CPU, d # c PROVE CliOK(d)'
      BY <1>0, <2>1, CliOthers DEF IInv, TypeOK, GoTo
    <2>2. CliOK(c)'
      <3>1. Pending(c, level[c])' = Pending(c, level[c])
        BY <1>0, LockAssumption DEF IInv, TypeOK, At, GoTo, Arg, ContextOK, Pending, Level
      <3>2. ~iflag[c] /\ pc'[c][level[c]] # "cli"
        BY <1>0, LockAssumption, SMTT(60) DEF IInv, TypeOK, At, GoTo, Arg, ContextOK, CliOK, Level
      <3>3. QED
        BY <1>0, <3>1, <3>2, CliFrame DEF IInv, TypeOK, GoTo
    <2>3. QED
      BY <2>1, <2>2
  <1>3. \A d \in CPU, k \in Level : ContextOK(d, k)'
    BY <1>0 DEF IInv, TypeOK, At, GoTo, Arg, ContextOK, LockOK
  <1>4. LockOK'
    BY <1>0, SMTT(60) DEF IInv, GoTo, LockOK, Owns
  <1>5. MutualExclusion'
    BY <1>0, LockAssumption, SMTT(60) DEF IInv, GoTo, LockOK, MutualExclusion, Owns
  <1>6. QED
    BY <1>1, <1>2, <1>3, <1>4, <1>5 DEF IInv

\* holding()'s load of lk->cpu keeps it: the answer is exact.
LEMMA HoldingCpuStep ==
  ASSUME IInv, NEW c \in CPU, HoldingCpu(c)
  PROVE  IInv'
  <1>0. /\ UNCHANGED <<locked, cpu, ncli, intena, iflag, level, call, lk, eflags, held>>
        /\ \E a \in {"spin", "holding2", "clearcpu"} :
             /\ GoTo(c, a)
             /\ a = "spin" => call[c][level[c]] = "acquire"
             /\ a = "clearcpu" => call[c][level[c]] = "release"
             /\ a = "holding2" => locked[Arg(c)]
        /\ pc[c][level[c]] \in {"holding", "holding2"}
    <2>1. Arg(c) \in Lock /\ call[c][level[c]] \in {"acquire", "release"}
      BY DEF IInv, TypeOK, HoldingCpu, At, Arg, ContextOK
    <2>2. CASE call[c][level[c]] = "acquire"
      <3>1. cpu[Arg(c)] # c
        BY <2>1, <2>2 DEF IInv, TypeOK, LockOK, ContextOK, Arg
      <3>2. GoTo(c, "spin")
        BY <2>2, <3>1 DEF HoldingCpu, Holding
      <3>3. QED
        BY <2>2, <3>2 DEF HoldingCpu, At
    <2>3. CASE call[c][level[c]] = "release"
      <3>1. cpu[Arg(c)] = c
        BY <2>1, <2>3 DEF IInv, TypeOK, LockOK, ContextOK, Arg, HoldingCpu, At
      <3>2. GoTo(c, "clearcpu")
        BY <2>3, <3>1, SMTT(60) DEF HoldingCpu, Holding
      <3>3. QED
        BY <2>3, <3>2 DEF HoldingCpu, At
    <2>4. QED
      BY <2>1, <2>2, <2>3
  <1>1. TypeOK'
    BY <1>0 DEF IInv, TypeOK, At, GoTo, Label
  <1>2. \A d \in CPU : CliOK(d)'
    <2>1. ASSUME NEW d \in CPU, d # c PROVE CliOK(d)'
      BY <1>0, <2>1, CliOthers DEF GoTo
    <2>2. CliOK(c)'
      <3>1. Pending(c, level[c])' = Pending(c, level[c])
        BY <1>0, LockAssumption DEF IInv, TypeOK, At, GoTo, Arg, ContextOK, Pending, Level
      <3>2. ~iflag[c] /\ pc'[c][level[c]] # "cli"
        BY <1>0 DEF IInv, TypeOK, GoTo, ContextOK, CliOK
      <3>3. QED
        BY <1>0, <3>1, <3>2, CliFrame DEF IInv, TypeOK, GoTo
    <2>3. QED
      BY <2>1, <2>2
  <1>3. \A d \in CPU, k \in Level : ContextOK(d, k)'
    BY <1>0 DEF IInv, TypeOK, At, GoTo, Arg, ContextOK, LockOK, Owns
  <1>4. LockOK'
    BY <1>0 DEF IInv, TypeOK, GoTo, ContextOK, LockOK, MutualExclusion, Owns
  <1>5. MutualExclusion'
    BY <1>0 DEF IInv, At, GoTo, MutualExclusion, Owns
  <1>6. QED
    BY <1>1, <1>2, <1>3, <1>4, <1>5 DEF IInv

\* The xchg that takes the lock keeps it.
LEMMA XchgStep ==
  ASSUME IInv, NEW c \in CPU, Xchg(c)
  PROVE  IInv'
  <1>1. TypeOK'
    BY DEF IInv, TypeOK, Xchg, At, GoTo, Arg, Holding, ContextOK, Label
  <1>2. \A d \in CPU : CliOK(d)'
    <2>1. ASSUME NEW d \in CPU, d # c PROVE CliOK(d)'
      BY <2>1, CliOthers DEF IInv, TypeOK, Xchg, GoTo, Holding
    <2>2. CliOK(c)'
      <3>1. Pending(c, level[c])' = Pending(c, level[c])
        BY LockAssumption DEF IInv, TypeOK, Xchg, At, GoTo, Arg, Holding, ContextOK, Pending, Level
      <3>2. ~iflag[c] /\ pc'[c][level[c]] # "cli"
        BY LockAssumption, SMTT(60) DEF IInv, TypeOK, Xchg, At, GoTo, Arg, Holding, ContextOK, CliOK, Level
      <3>3. QED
        BY <3>1, <3>2, CliFrame DEF IInv, TypeOK, Xchg, GoTo, Holding
    <2>3. QED
      BY <2>1, <2>2
  <1>3. \A d \in CPU, k \in Level : ContextOK(d, k)'
    BY SMTT(60) DEF IInv, TypeOK, Xchg, At, GoTo, ContextOK
  <1>4. LockOK'
    BY LockAssumption, SMTT(60) DEF IInv, TypeOK, Xchg, At, GoTo, Arg, LockOK, Owns
  <1>5. MutualExclusion'
    BY LockAssumption DEF IInv, TypeOK, Xchg, GoTo, Arg, LockOK, MutualExclusion, Owns
  <1>6. QED
    BY <1>1, <1>2, <1>3, <1>4, <1>5 DEF IInv

\* The store of lk->cpu that ends acquire() keeps it.
LEMMA SetCpuStep ==
  ASSUME IInv, NEW c \in CPU, SetCpu(c)
  PROVE  IInv'
  <1>0. /\ held'[c][level[c]] = held[c][level[c]] \cup {Arg(c)}
        /\ Arg(c) \notin held[c][level[c]] /\ Arg(c) \in Lock
        /\ IsFiniteSet(held[c][level[c]])
        /\ IsFiniteSet(held'[c][level[c]])
    BY AddCard, ZenonT(60) DEF IInv, TypeOK, SetCpu, ContextOK, At, Arg
  <1>1. TypeOK'
    BY LockAssumption DEF IInv, TypeOK, SetCpu, At, GoTo, Arg, ContextOK, Label
  <1>2. \A d \in CPU : CliOK(d)'
    <2>1. ASSUME NEW d \in CPU, d # c PROVE CliOK(d)'
      BY <2>1, CliOthers, SMTT(60) DEF SetCpu, GoTo
    <2>2. CliOK(c)'
      <3>1. Pending(c, level[c])' = 0 /\ Pending(c, level[c]) = 1
        BY LockAssumption DEF IInv, TypeOK, SetCpu, At, GoTo, ContextOK, Pending, Level
      <3>2. Cardinality(held'[c][level[c]]) = Cardinality(held[c][level[c]]) + 1
        BY AddCard, <1>0
      <3>3. ncli'[c] = Cardinality(held'[c][level'[c]]) + Pending(c, level[c])'
        BY <3>1, <3>2, FS_CardinalityType, <1>0 DEF IInv, CliOK, SetCpu
      <3>4. QED
        BY <3>3 DEF IInv, CliOK, SetCpu, At, GoTo, Level
    <2>3. QED
      BY <2>1, <2>2
  <1>3. \A d \in CPU, k \in Level : ContextOK(d, k)'
    <2>1. ASSUME NEW d \in CPU, NEW k \in Level, ~(d = c /\ k = level[c])
          PROVE  ContextOK(d, k)'
      <3>1. /\ held'[d][k] = held[d][k] /\ pc'[d][k] = pc[d][k]
            /\ call'[d][k] = call[d][k] /\ lk'[d][k] = lk[d][k] /\ locked' = locked
        BY <2>1, Zenon DEF IInv, TypeOK, SetCpu, GoTo
      <3>2. QED
        BY <3>1 DEF IInv, ContextOK
    <2>2. ContextOK(c, level[c])'
      <3>1. /\ level'[c] = level[c] /\ locked' = locked
            /\ pc'[c][level[c]] = "run"
            /\ call'[c][level[c]] = "none"
            /\ lk'[c][level[c]] = NoLock
        BY Zenon DEF IInv, TypeOK, SetCpu, GoTo, At, Arg, ContextOK
      <3>2. QED
        BY <1>0, <3>1, ZenonT(30) DEF ContextOK, Arg
    <2>3. QED
      BY <2>1, <2>2, Zenon DEF IInv, TypeOK, SetCpu
  <1>4. LockOK'
    BY LockAssumption, SMTT(60) DEF IInv, TypeOK, SetCpu, At, GoTo, Arg, Holding, ContextOK, CliOK, LockOK, MutualExclusion, Owns, Level
  <1>5. MutualExclusion'
    BY LockAssumption DEF IInv, TypeOK, SetCpu, At, GoTo, Arg, MutualExclusion, Owns
  <1>6. QED
    BY <1>1, <1>2, <1>3, <1>4, <1>5 DEF IInv

\* The store that clears lk->cpu keeps it.
LEMMA ClearCpuStep ==
  ASSUME IInv, NEW c \in CPU, ClearCpu(c)
  PROVE  IInv'
  <1>0. /\ held'[c][level[c]] = held[c][level[c]] \ {Arg(c)}
        /\ Arg(c) \in held[c][level[c]] /\ Arg(c) \in Lock
        /\ IsFiniteSet(held[c][level[c]])
        /\ IsFiniteSet(held'[c][level[c]])
    BY RemoveCard, ZenonT(60) DEF IInv, TypeOK, ClearCpu, ContextOK, At, Arg
  <1>1. TypeOK'
    BY LockAssumption DEF IInv, TypeOK, ClearCpu, At, GoTo, Arg, ContextOK, Label
  <1>2. \A d \in CPU : CliOK(d)'
    <2>1. ASSUME NEW d \in CPU, d # c PROVE CliOK(d)'
      BY <2>1, CliOthers, Zenon DEF IInv, TypeOK, ClearCpu, GoTo, Holding
    <2>2. CliOK(c)'
      <3>1. Pending(c, level[c])' = 1 /\ Pending(c, level[c]) = 0
        BY LockAssumption DEF IInv, TypeOK, ClearCpu, At, GoTo, ContextOK, Pending, Level
      <3>2. Cardinality(held'[c][level[c]]) = Cardinality(held[c][level[c]]) - 1
        BY RemoveCard, <1>0, Zenon
      <3>3. ncli'[c] = Cardinality(held'[c][level'[c]]) + Pending(c, level[c])'
        BY <3>1, <3>2, FS_CardinalityType, <1>0 DEF IInv, CliOK, ClearCpu
      <3>4. QED
        BY <3>3 DEF IInv, CliOK, ClearCpu, At, GoTo
    <2>3. QED
      BY <2>1, <2>2
  <1>3. \A d \in CPU, k \in Level : ContextOK(d, k)'
    <2>1. ASSUME NEW d \in CPU, NEW k \in Level, ~(d = c /\ k = level[c])
          PROVE  ContextOK(d, k)'
      <3>1. /\ held'[d][k] = held[d][k] /\ pc'[d][k] = pc[d][k]
            /\ call'[d][k] = call[d][k] /\ lk'[d][k] = lk[d][k] /\ locked' = locked
        BY <2>1, Zenon DEF IInv, TypeOK, ClearCpu, GoTo
      <3>2. QED
        BY <3>1 DEF IInv, ContextOK
    <2>2. ContextOK(c, level[c])'
      <3>1. /\ level'[c] = level[c] /\ locked' = locked
            /\ pc'[c][level[c]] = "unlock"
            /\ call'[c][level[c]] = "release"
            /\ lk'[c][level[c]] = Arg(c)
        BY Zenon DEF IInv, TypeOK, ClearCpu, GoTo, At, Arg, ContextOK
      <3>2. QED
        BY <1>0, <3>1, Zenon DEF ContextOK, Arg
    <2>3. QED
      BY <2>1, <2>2 DEF IInv, TypeOK, ClearCpu
  <1>4. LockOK'
    BY LockAssumption, SMTT(60) DEF IInv, TypeOK, ClearCpu, At, GoTo, Arg, Holding,
       ContextOK, CliOK, LockOK, Owns
  <1>5. MutualExclusion'
    BY SMTT(60) DEF IInv, TypeOK, ClearCpu, At, GoTo, ContextOK, MutualExclusion, Owns
  <1>6. QED
    BY <1>1, <1>2, <1>3, <1>4, <1>5 DEF IInv

\* The store that frees the lock keeps it.
LEMMA UnlockStep ==
  ASSUME IInv, NEW c \in CPU, Unlock(c)
  PROVE  IInv'
  <1>1. TypeOK'
    BY LockAssumption DEF IInv, TypeOK, Unlock, At, GoTo, Arg, ContextOK, Label
  <1>2. \A d \in CPU : CliOK(d)'
    <2>1. ASSUME NEW d \in CPU, d # c PROVE CliOK(d)'
      BY <2>1, CliOthers DEF IInv, TypeOK, Unlock, GoTo, Holding
    <2>2. CliOK(c)'
      <3>1. Pending(c, level[c])' = Pending(c, level[c])
        BY LockAssumption DEF IInv, TypeOK, Unlock, At, GoTo, Arg, Holding, ContextOK, Pending, Level
      <3>2. ~iflag[c] /\ pc'[c][level[c]] # "cli"
        BY LockAssumption, SMTT(60) DEF IInv, TypeOK, Unlock, At, GoTo, Arg, Holding, ContextOK, CliOK, Level
      <3>3. QED
        BY <3>1, <3>2, CliFrame, Zenon DEF IInv, TypeOK, Unlock, GoTo, Holding
    <2>3. QED
      BY <2>1, <2>2
  <1>3. \A d \in CPU, k \in Level : ContextOK(d, k)'
    BY SMTT(60) DEF IInv, TypeOK, Unlock, At, GoTo, Arg, ContextOK, MutualExclusion, Owns
  <1>4. LockOK'
    BY LockAssumption, SMTT(60) DEF IInv, TypeOK, Unlock, At, GoTo, Arg, ContextOK, CliOK,
       LockOK, MutualExclusion, Owns
  <1>5. MutualExclusion'
    BY LockAssumption DEF IInv, Unlock, At, GoTo, Arg, Holding, MutualExclusion, Owns
  <1>6. QED
    BY <1>1, <1>2, <1>3, <1>4, <1>5 DEF IInv

\* popcli() keeps it.
LEMMA PopcliStep ==
  ASSUME IInv, NEW c \in CPU, Popcli(c)
  PROVE  IInv'
  <1>0. /\ pc[c][level[c]] = "popcli" /\ GoTo(c, "run")
        /\ ncli[c] # 0 /\ ncli' = [ncli EXCEPT ![c] = @ - 1]
        /\ iflag' = [iflag EXCEPT ![c] = ncli[c] = 1 /\ intena[c]]
        /\ call' = [call EXCEPT ![c][level[c]] = "none"]
        /\ lk' = [lk EXCEPT ![c][level[c]] = NoLock]
        /\ UNCHANGED <<locked, cpu, intena, level, eflags, held>>
        /\ IsFiniteSet(held[c][level[c]])
    <2>1. ~iflag[c] /\ IsFiniteSet(held[c][level[c]])
      BY ZenonT(60) DEF IInv, TypeOK, CliOK, ContextOK, Popcli, At
    <2>2. ncli[c] # 0
      BY <2>1, FS_CardinalityType DEF IInv, TypeOK, CliOK, Popcli, At, Pending
    <2>3. QED
      BY <2>1, <2>2 DEF Popcli, At
  <1>1. TypeOK'
    BY <1>0, SMTT(60) DEF IInv, TypeOK, At, GoTo, Arg, Level, Label
  <1>2. \A d \in CPU : CliOK(d)'
    <2>1. ASSUME NEW d \in CPU, d # c PROVE CliOK(d)'
      BY <1>0, <2>1, CliOthers, SMTT(60) DEF GoTo
    <2>2. CliOK(c)'
      <3>1. Pending(c, level[c])' = 0 /\ Pending(c, level[c]) = 1
        BY <1>0, ZenonT(60) DEF IInv, TypeOK, GoTo, Pending
      <3>2. ncli'[c] = Cardinality(held'[c][level'[c]]) + Pending(c, level[c])'
        BY <1>0, <3>1, FS_CardinalityType DEF IInv, TypeOK, CliOK
      <3>3. iflag'[c] => held[c][level[c]] = {} /\ level[c] = 0
        <4>1. SUFFICES ASSUME iflag'[c] PROVE held[c][level[c]] = {} /\ level[c] = 0
          OBVIOUS
        <4>2. ncli[c] = 1 /\ intena[c]
          BY <1>0, <4>1, ZenonT(30) DEF IInv, TypeOK
        <4>3. Cardinality(held[c][level[c]]) = 0
          BY <1>0, <3>1, <4>2, FS_CardinalityType DEF IInv, CliOK
        <4>4. QED
          BY <1>0, <4>2, <4>3, FS_EmptySet DEF IInv, CliOK
      <3>4. /\ level'[c] = level[c] /\ held'[c] = held[c] /\ intena'[c] = intena[c]
            /\ pc'[c][level[c]] = "run"
            /\ \A k \in Level : k # level[c] => pc'[c][k] = pc[c][k]
        BY <1>0 DEF IInv, TypeOK, GoTo
      <3>5. iflag'[c] => level'[c] = 0 /\ held'[c][0] = {} /\ pc'[c][0] = "run"
        BY <3>3, <3>4
      <3>6. ncli[c] # 0
        BY <1>0, Zenon
      <3>7. /\ level'[c] \in {0, 1}
            /\ level'[c] # 0 /\ pc'[c][level'[c]] = "cli" => ~eflags'[c][level'[c]]
            /\ level'[c] # 0 /\ ncli'[c] # 0 => ~intena'[c]
        BY <3>4, <3>6, Zenon DEF IInv, CliOK
      <3>8. \A k \in Level : k # level'[c] =>
              /\ held'[c][k] = {} /\ pc'[c][k] \in {"run", "cli"}
              /\ k # 0 => pc'[c][k] = "run"
        BY <3>4, Zenon DEF IInv, CliOK
      <3>9. QED
        BY <3>2, <3>5, <3>7, <3>8 DEF CliOK
    <2>3. QED
      BY <2>1, <2>2
  <1>3. \A d \in CPU, k \in Level : ContextOK(d, k)'
    BY <1>0, SMTT(60) DEF IInv, TypeOK, GoTo, ContextOK
  <1>4. LockOK'
    BY <1>0, LockAssumption, SMTT(60) DEF IInv, At, GoTo, Arg, ContextOK, LockOK, Owns
  <1>5. MutualExclusion'
    BY <1>0, SMTT(60) DEF IInv, TypeOK, At, GoTo, Arg, MutualExclusion, Owns
  <1>6. QED
    BY <1>1, <1>2, <1>3, <1>4, <1>5 DEF IInv

\* The scheduler's sti keeps it.
LEMMA StiStep ==
  ASSUME IInv, NEW c \in CPU, Sti(c)
  PROVE  IInv'
  <1>1. TypeOK'
    BY LockAssumption DEF IInv, TypeOK, Sti, Level
  <1>2. \A d \in CPU : CliOK(d)'
    <2>1. ASSUME NEW d \in CPU, d # c PROVE CliOK(d)'
      BY <2>1, CliOthers, ZenonT(30) DEF IInv, TypeOK, Sti, GoTo, Holding
    <2>2. CliOK(c)'
      BY Zenon DEF IInv, TypeOK, CliOK, Pending, Sti, At, ContextOK, Level
    <2>3. QED
      BY <2>1, <2>2
  <1>3. \A d \in CPU, k \in Level : ContextOK(d, k)'
    BY ContextsKept DEF Sti
  <1>4. LockOK' /\ MutualExclusion'
    <2>1. UNCHANGED <<locked, cpu, held, level>>
      BY Zenon DEF Sti
    <2>2. QED
      BY <2>1, OwnsStutter, LocksKept, Zenon
  <1>5. QED
    BY <1>1, <1>2, <1>3, <1>4 DEF IInv

\* An interrupt keeps it: the new context owns no lock.
LEMMA InterruptStep ==
  ASSUME IInv, NEW c \in CPU, Interrupt(c)
  PROVE  IInv'
  <1>1. TypeOK'
    BY LockAssumption, SMTT(60) DEF IInv, TypeOK, Interrupt, Level
  <1>2. \A d \in CPU : CliOK(d)'
    <2>1. ASSUME NEW d \in CPU, d # c PROVE CliOK(d)'
      BY <2>1, CliOthers, ZenonT(30) DEF IInv, TypeOK, Interrupt, GoTo, Holding
    <2>2. CliOK(c)'
      <3>0. CliOK(c)
        BY DEF IInv
      <3>1. ncli[c] = 0 /\ level[c] = 0 /\ level'[c] = 1 /\ 1 \in Level
        <4>1. level[c] = 0 /\ held[c][0] = {} /\ pc[c][0] \in {"run", "cli"}
          BY <3>0 DEF CliOK, Interrupt
        <4>2. Pending(c, 0) = 0
          BY <4>1 DEF Pending
        <4>3. ncli[c] = 0
          <5>1. Cardinality(held[c][0]) = 0
            BY <4>1, EmptyCard, ZenonT(30)
          <5>2. ncli[c] = Cardinality(held[c][level[c]]) + Pending(c, level[c])
            BY <3>0, Zenon DEF CliOK
          <5>3. QED
            BY <4>1, <4>2, <5>1, <5>2
        <4>4. QED
          BY <4>1, <4>3, LockAssumption, SMTT(60) DEF IInv, TypeOK, Interrupt, Level
      <3>2. held[c][1] = {} /\ pc[c][1] = "run" /\ call[c][1] = "none"
        <4>1. ContextOK(c, 1)
          BY <3>1 DEF IInv
        <4>2. held[c][1] = {} /\ pc[c][1] = "run"
          BY <3>0, <3>1 DEF CliOK
        <4>3. QED
          BY <4>1, <4>2 DEF ContextOK
      <3>3. /\ held'[c] = held[c] /\ pc'[c] = pc[c] /\ ncli'[c] = 0 /\ ~iflag'[c]
        BY <3>1, Zenon DEF IInv, TypeOK, Interrupt
      <3>4. Pending(c, level[c])' = 0
        BY <3>1, <3>2, <3>3 DEF Pending
      <3>5. \A k \in Level : k # 1 => held'[c][k] = {} /\ pc'[c][k] \in {"run", "cli"}
        BY <3>0, <3>1, <3>3, Zenon DEF CliOK, Interrupt
      <3>6. \A k \in Level : k # 1 /\ k # 0 => pc'[c][k] = "run"
        BY <3>0, <3>1, <3>3 DEF CliOK
      <3>7. Cardinality(held'[c][level'[c]]) = 0
        BY <3>1, <3>2, <3>3, EmptyCard, ZenonT(30)
      <3>8. QED
        BY <3>1, <3>2, <3>3, <3>4, <3>5, <3>6, <3>7 DEF CliOK
    <2>3. QED
      BY <2>1, <2>2
  <1>3. \A d \in CPU, k \in Level : ContextOK(d, k)'
    BY ContextsKept DEF Interrupt
  <1>4. LockOK' /\ MutualExclusion'
    <2>1. UNCHANGED <<locked, cpu, held>> /\ \A d \in CPU : d # c => level'[d] = level[d]
      BY DEF IInv, TypeOK, Interrupt
    <2>2. held[c][level[c]] = {}
      BY Zenon DEF IInv, CliOK, Interrupt
    <2>3. QED
      BY <2>1, <2>2, OwnsStutter, LocksKept, Zenon
  <1>5. QED
    BY <1>1, <1>2, <1>3, <1>4 DEF IInv

\* The return from an interrupt keeps it.
LEMMA IretStep ==
  ASSUME IInv, NEW c \in CPU, Iret(c)
  PROVE  IInv'
  <1>1. TypeOK'
    BY LockAssumption, SMTT(60) DEF IInv, TypeOK, Iret, Level
  <1>2. \A d \in CPU : CliOK(d)'
    <2>1. ASSUME NEW d \in CPU, d # c PROVE CliOK(d)'
      BY <2>1, CliOthers, ZenonT(60) DEF IInv, TypeOK, Iret, GoTo, Holding
    <2>2. CliOK(c)'
      <3>1. level[c] = 1 /\ level'[c] = 0 /\ 0 \in Level /\ 1 \in Level
        BY LockAssumption DEF IInv, TypeOK, CliOK, Iret, Level
      <3>2. ncli[c] = 0
        <4>1. held[c][1] = {} /\ pc[c][1] = "run"
          BY <3>1, ZenonT(30) DEF Iret, At
        <4>2. Pending(c, 1) = 0
          BY <4>1 DEF Pending
        <4>3. Cardinality(held[c][1]) = 0
          BY <4>1, EmptyCard, ZenonT(30)
        <4>4. QED
          BY <3>1, <4>2, <4>3 DEF IInv, CliOK
      <3>3. held[c][0] = {} /\ pc[c][0] \in {"run", "cli"}
        BY <3>1, SMTT(60) DEF IInv, TypeOK, CliOK, Level
      <3>4. Pending(c, level[c])' = 0
        BY <3>1, <3>3, ZenonT(30) DEF Pending, Iret
      <3>5. /\ held'[c] = held[c] /\ pc'[c] = pc[c] /\ ncli'[c] = 0
        BY <3>2, ZenonT(30) DEF Iret
      <3>6. \A k \in Level : k # 0 => held'[c][k] = {} /\ pc'[c][k] = "run"
        BY <3>1, <3>5, Zenon DEF IInv, CliOK, Iret, At
      <3>7. Cardinality(held'[c][level'[c]]) = 0
        BY <3>1, <3>3, <3>5, EmptyCard, ZenonT(30)
      <3>8. ncli'[c] = Cardinality(held'[c][level'[c]]) + Pending(c, level[c])'
        BY <3>4, <3>5, <3>7
      <3>9. held'[c][0] = {} /\ pc'[c][0] \in {"run", "cli"}
        BY <3>3, <3>5
      <3>10. QED
        BY <3>1, <3>6, <3>8, <3>9 DEF CliOK
    <2>3. QED
      BY <2>1, <2>2
  <1>3. \A d \in CPU, k \in Level : ContextOK(d, k)'
    BY ContextsKept DEF Iret
  <1>4. LockOK' /\ MutualExclusion'
    <2>1. UNCHANGED <<locked, cpu, held>> /\ \A d \in CPU : d # c => level'[d] = level[d]
      BY DEF IInv, TypeOK, Iret
    <2>2. held[c][level[c]] = {}
      BY Zenon DEF IInv, CliOK, Iret
    <2>3. QED
      BY <2>1, <2>2, OwnsStutter, LocksKept, Zenon
  <1>5. QED
    BY <1>1, <1>2, <1>3, <1>4 DEF IInv

\* A call of acquire() keeps it.
LEMMA AcquireCallStep ==
  ASSUME IInv, NEW c \in CPU, NEW l \in Lock, AcquireCall(c, l)
  PROVE  IInv'
  <1>0. l \notin held[c][level[c]]
    BY LockAssumption, ZenonT(30) DEF AcquireCall
  <1>1. TypeOK'
    BY LockAssumption, SMTT(60) DEF IInv, TypeOK, AcquireCall, At, GoTo, Level, Label
  <1>2. \A d \in CPU : CliOK(d)'
    <2>1. ASSUME NEW d \in CPU, d # c PROVE CliOK(d)'
      BY <2>1, CliOthers, Zenon DEF IInv, TypeOK, AcquireCall, GoTo, Holding
    <2>2. CliOK(c)'
      <3>1. Pending(c, level[c])' = Pending(c, level[c])
        BY LockAssumption, SMTT(60) DEF IInv, TypeOK, AcquireCall, At, GoTo, ContextOK, Pending, Level
      <3>2. QED
        BY <3>1, SMTT(60) DEF IInv, TypeOK, CliOK, AcquireCall, At, GoTo, Level
    <2>3. QED
      BY <2>1, <2>2, Zenon
  <1>3. \A d \in CPU, k \in Level : ContextOK(d, k)'
    <2>1. /\ level[c] \in Level
          /\ pc'[c][level[c]] = "cli" /\ call'[c][level[c]] = "acquire"
          /\ lk'[c][level[c]] = l /\ UNCHANGED <<held, locked>>
      BY DEF IInv, TypeOK, AcquireCall, GoTo
    <2>2. \A d \in CPU, k \in Level : d # c \/ k # level[c] =>
            pc'[d][k] = pc[d][k] /\ call'[d][k] = call[d][k] /\ lk'[d][k] = lk[d][k]
      BY DEF IInv, TypeOK, AcquireCall, GoTo
    <2>3. \A d \in CPU, k \in Level : ContextOK(d, k)
      BY Zenon DEF IInv
    <2>4. ASSUME NEW k \in Level, k = level[c]  PROVE ContextOK(c, k)'
      BY <1>0, <2>1, <2>3, <2>4, Zenon DEF ContextOK
    <2>5. ASSUME NEW d \in CPU, NEW k \in Level, d # c \/ k # level[c]  PROVE ContextOK(d, k)'
      BY <2>1, <2>2, <2>3, <2>5 DEF ContextOK
    <2>6. QED
      BY <2>4, <2>5
  <1>4. LockOK' /\ MutualExclusion'
    <2>1. UNCHANGED <<locked, cpu, held, level>>
      BY Zenon DEF AcquireCall
    <2>2. QED
      BY <2>1, OwnsStutter, LocksKept, Zenon
  <1>5. QED
    BY <1>1, <1>2, <1>3, <1>4 DEF IInv

\* A call of release() keeps it.
LEMMA ReleaseCallStep ==
  ASSUME IInv, NEW c \in CPU, NEW l \in Lock, ReleaseCall(c, l)
  PROVE  IInv'
  <1>1. TypeOK'
    BY LockAssumption, Zenon DEF IInv, TypeOK, ReleaseCall, At, GoTo, Level, Label
  <1>2. \A d \in CPU : CliOK(d)'
    <2>1. ASSUME NEW d \in CPU, d # c PROVE CliOK(d)'
      BY <2>1, CliOthers, Zenon DEF IInv, TypeOK, ReleaseCall, GoTo, Holding
    <2>2. CliOK(c)'
      <3>1. Pending(c, level[c])' = Pending(c, level[c])
        BY LockAssumption, SMTT(60) DEF IInv, TypeOK, ReleaseCall, At, GoTo, Arg, Holding, ContextOK, Pending, Level
      <3>2. ~iflag[c] /\ pc'[c][level[c]] # "cli"
        BY LockAssumption, SMTT(60) DEF IInv, TypeOK, ReleaseCall, At, GoTo, Arg, Holding, ContextOK, CliOK, Level
      <3>3. QED
        BY <3>1, <3>2, CliFrame, Zenon DEF IInv, TypeOK, ReleaseCall, GoTo, Holding
    <2>3. QED
      BY <2>1, <2>2
  <1>3. \A d \in CPU, k \in Level : ContextOK(d, k)'
    <2>1. /\ level[c] \in Level /\ l \in held[c][level[c]]
          /\ pc'[c][level[c]] = "holding" /\ call'[c][level[c]] = "release"
          /\ lk'[c][level[c]] = l /\ UNCHANGED <<held, locked>>
      BY DEF IInv, TypeOK, ReleaseCall, GoTo
    <2>2. \A d \in CPU, k \in Level : d # c \/ k # level[c] =>
            pc'[d][k] = pc[d][k] /\ call'[d][k] = call[d][k] /\ lk'[d][k] = lk[d][k]
      BY Zenon DEF IInv, TypeOK, ReleaseCall, GoTo
    <2>3. ContextOK(c, level[c]) /\ \A d \in CPU, k \in Level : ContextOK(d, k)
      BY <2>1 DEF IInv
    <2>4. ASSUME NEW k \in Level, k = level[c]  PROVE ContextOK(c, k)'
      BY <2>1, <2>3, <2>4, Zenon DEF ContextOK
    <2>5. ASSUME NEW d \in CPU, NEW k \in Level, d # c \/ k # level[c]  PROVE ContextOK(d, k)'
      <3>1. /\ pc'[d][k] = pc[d][k] /\ call'[d][k] = call[d][k] /\ lk'[d][k] = lk[d][k]
            /\ held' = held /\ locked' = locked /\ ContextOK(d, k)
        BY <2>1, <2>2, <2>3, <2>5, Zenon
      <3>2. QED
        BY <3>1, ContextKept, Zenon
    <2>6. QED
      BY <2>4, <2>5
  <1>4. LockOK' /\ MutualExclusion'
    <2>1. UNCHANGED <<locked, cpu, held, level>>
      BY DEF ReleaseCall
    <2>2. QED
      BY <2>1, OwnsStutter, LocksKept, Zenon
  <1>5. QED
    BY <1>1, <1>2, <1>3, <1>4 DEF IInv

-----------------------------------------------------------------------------
\* Every step of spinlock.c, and every interrupt, preserves the invariant.
LEMMA NextIInv == IInv /\ [Next]_vars => IInv'
  <1>1. SUFFICES ASSUME IInv, [Next]_vars PROVE IInv'
    OBVIOUS
  <1>2. CASE UNCHANGED vars
    <2>1. TypeOK'
      BY <1>1, <1>2, Zenon DEF vars, IInv, TypeOK
    <2>2. \A c \in CPU : CliOK(c)'
      <3>1. UNCHANGED <<ncli, intena, iflag, level, pc, call, eflags, held>>
        BY <1>2 DEF vars
      <3>2. \A c \in CPU : Pending(c, level[c])' = Pending(c, level[c])
        BY <3>1 DEF Pending
      <3>3. QED
        BY <1>1, <3>1, <3>2, Zenon DEF IInv, CliOK
    <2>3. \A c \in CPU, k \in Level : ContextOK(c, k)'
      BY <1>1, <1>2, ContextsKept DEF vars
    <2>4. LockOK' /\ MutualExclusion'
      <3>1. \A d \in CPU, k \in Level, l \in Lock : Owns(d, k, l)' <=> Owns(d, k, l)
        BY <1>2, Zenon DEF vars, Owns
      <3>2. QED
        BY <1>1, <1>2, <3>1, LocksKept DEF vars
    <2>5. QED
      BY <2>1, <2>2, <2>3, <2>4 DEF IInv
  <1>3. ASSUME NEW c \in CPU, LockStep(c) PROVE IInv'
    BY <1>1, <1>3, PushcliStep, HoldingLockedStep, HoldingCpuStep, XchgStep, SetCpuStep,
       ClearCpuStep, UnlockStep, PopcliStep DEF LockStep
  <1>4. ASSUME NEW c \in CPU, NEW l \in Lock, AcquireCall(c, l) \/ ReleaseCall(c, l)
        PROVE  IInv'
    BY <1>1, <1>4, AcquireCallStep, ReleaseCallStep
  <1>5. ASSUME NEW c \in CPU, Sti(c) \/ Interrupt(c) \/ Iret(c) PROVE IInv'
    BY <1>1, <1>5, StiStep, InterruptStep, IretStep
  <1>6. QED
    BY <1>1, <1>2, <1>3, <1>4, <1>5 DEF Next

\* The invariant holds in every behaviour.
LEMMA SpecIInv == Spec => []IInv
  BY InitIInv, NextIInv, PTL DEF Spec

\* Type correctness of the state of spinlock.c.
THEOREM SpinLockTypeOK == Spec => []TypeOK
  <1>1. IInv => TypeOK
    BY DEF IInv
  <1>2. QED
    BY <1>1, SpecIInv, PTL

\* acquire() and release() give mutual exclusion on every lock, for any number
\* of CPUs and locks and with interrupts arriving at every instruction.
THEOREM SpinLockMutualExclusion == Spec => []MutualExclusion
  <1>1. IInv => MutualExclusion
    BY SMTT(60) DEF IInv
  <1>2. QED
    BY <1>1, SpecIInv, PTL

\* None of the panics of acquire(), release() and popcli() is reachable:
\* holding() is exact although it reads the lock without owning it.
THEOREM SpinLockNoPanic == Spec => []NoPanic
  <1>1. IInv => NoPanic
    BY Zenon DEF IInv, ContextOK, NoPanic
  <1>2. QED
    BY <1>1, SpecIInv, PTL

\* The owner of a lock has interrupts off and is not preempted on its CPU.
THEOREM SpinLockOwnerNotInterrupted == Spec => []OwnerNotInterrupted
  <1>1. IInv => OwnerNotInterrupted
    <2>1. SUFFICES ASSUME IInv, NEW c \in CPU, NEW k \in Level, NEW l \in Lock,
                          Owns(c, k, l)
                   PROVE  ~iflag[c] /\ ncli[c] > 0 /\ level[c] = k
      BY SMTT(60) DEF OwnerNotInterrupted
    <2>2. level[c] = k /\ ~iflag[c]
      BY <2>1, SMTT(60) DEF IInv, CliOK, Owns
    <2>3. /\ Cardinality(held[c][k]) \in Nat
          /\ l \in held[c][k] => Cardinality(held[c][k]) # 0
      BY <2>1, RemoveCard, FS_CardinalityType, ZenonT(60) DEF IInv, ContextOK
    <2>4. l \notin held[c][k] => Pending(c, k) = 1
      BY <2>1, Zenon DEF Owns, Pending, IInv, ContextOK
    <2>5. Pending(c, k) \in {0, 1}
      BY Zenon DEF Pending
    <2>6. QED
      BY <2>1, <2>2, <2>3, <2>4, <2>5, SMTT(60) DEF IInv, CliOK
  <1>2. QED
    BY <1>1, SpecIInv, PTL

\* No CPU spins on a lock that one of its own contexts owns.
THEOREM SpinLockNoSelfDeadlock == Spec => []NoSelfDeadlock
  <1>1. IInv => NoSelfDeadlock
    <2>1. SUFFICES ASSUME IInv, NEW c \in CPU, NEW k \in Level, NEW j \in Level,
                          NEW l \in Lock, pc[c][k] = "spin", lk[c][k] = l, Owns(c, j, l)
                   PROVE  FALSE
      BY Zenon DEF NoSelfDeadlock
    <2>2. level[c] = k /\ level[c] = j
      BY <2>1, Zenon DEF IInv, CliOK, Owns
    <2>3. l \in held[c][k]
      BY <2>1, <2>2, Zenon DEF Owns
    <2>4. QED
      BY <2>1, <2>3, Zenon DEF IInv, ContextOK
  <1>2. QED
    BY <1>1, SpecIInv, PTL

\* Interrupt handlers run to completion on their CPU.
THEOREM SpinLockHandlersNotPreempted == Spec => []HandlersNotPreempted
  <1>1. IInv => HandlersNotPreempted
    BY DEF IInv, HandlersNotPreempted, CliOK
  <1>2. QED
    BY <1>1, SpecIInv, PTL

-----------------------------------------------------------------------------
\* The eflags that pushcli() reads at level 0 are those of the thread: the flag
\* itself, which was on if an interrupt has come in between.
EflagsOK(c) ==
  pc[c][0] = "cli" => IF level[c] = 0 THEN eflags[c][0] = iflag[c] ELSE eflags[c][0]

\* The thread's interrupts are on, or will be when its pushcli are undone.
On(c) ==
  /\ level[c] = 0 => IF ncli[c] = 0 THEN iflag[c] ELSE intena[c]
  /\ pc[c][0] = "cli" /\ (level[c] # 0 \/ ncli[c] = 0) => eflags[c][0]

\* What the invariant says of a CPU, in the words of the two lemmas below.
LEMMA FlagFacts ==
  ASSUME IInv, NEW c \in CPU
  PROVE  /\ level[c] \in {0, 1} /\ level[c] \in Level /\ 0 \in Level
         /\ iflag[c] => level[c] = 0 /\ ncli[c] = 0 /\ pc[c][0] \in {"run", "cli"}
         /\ level[c] # 0 => pc[c][0] \in {"run", "cli"}
         /\ pc[c][level[c]] = "run" /\ held[c][level[c]] = {} => ncli[c] = 0
  <1>1. CliOK(c) /\ ContextOK(c, level[c]) /\ level[c] \in Level /\ 0 \in Level
    BY LockAssumption DEF IInv, TypeOK, Level
  <1>2. /\ level[c] \in {0, 1}
        /\ iflag[c] => level[c] = 0 /\ held[c][0] = {} /\ pc[c][0] \in {"run", "cli"}
        /\ level[c] # 0 => pc[c][0] \in {"run", "cli"}
    BY <1>1 DEF CliOK
  <1>3. ASSUME pc[c][level[c]] \in {"run", "cli"}, held[c][level[c]] = {} PROVE ncli[c] = 0
    <2>1. Pending(c, level[c]) = 0  BY <1>3 DEF Pending
    <2>2. Cardinality(held[c][level[c]]) = 0  BY <1>3, EmptyCard
    <2> QED  BY <1>1, <2>1, <2>2 DEF CliOK
  <1> QED  BY <1>1, <1>2, <1>3

\* A step that changes neither the flags of c nor whether its thread is at cli.
Quiet(c) ==
  /\ level'[c] = level[c] /\ ncli'[c] = ncli[c] /\ iflag'[c] = iflag[c]
  /\ intena'[c] = intena[c] /\ eflags'[c] = eflags[c]
  /\ pc'[c][0] = "cli" <=> pc[c][0] = "cli"

\* The steps of spinlock.c between pushcli() and popcli(), and the steps of the
\* other CPUs, are such.
LEMMA QuietSteps ==
  ASSUME IInv, NEW c \in CPU, NEW d \in CPU,
         \/ \/ HoldingLocked(d) \/ HoldingCpu(d) \/ Xchg(d) \/ SetCpu(d) \/ ClearCpu(d)
            \/ Unlock(d) \/ \E l \in Lock : ReleaseCall(d, l)
         \/ /\ d # c
            /\ \/ Pushcli(d) \/ Popcli(d) \/ Sti(d) \/ Interrupt(d) \/ Iret(d)
               \/ \E l \in Lock : AcquireCall(d, l)
  PROVE  Quiet(c)
  <1>0. level[d] \in Level /\ 0 \in Level  BY FlagFacts, Zenon
  <1>1. CASE \/ HoldingLocked(d) \/ HoldingCpu(d) \/ Xchg(d) \/ SetCpu(d) \/ ClearCpu(d)
             \/ Unlock(d) \/ \E l \in Lock : ReleaseCall(d, l)
    <2>1. UNCHANGED <<level, ncli, iflag, intena, eflags>>
      BY <1>1, Zenon DEF HoldingLocked, HoldingCpu, Xchg, SetCpu, ClearCpu, Unlock, ReleaseCall
    <2>2. pc[d][level[d]] # "cli" /\ \E a \in Label \ {"cli"} : GoTo(d, a)
      BY <1>1, Zenon DEF HoldingLocked, HoldingCpu, Holding, Xchg, SetCpu, ClearCpu, Unlock,
                         ReleaseCall, At, Label
    <2>3. PICK a \in Label \ {"cli"} : pc' = [pc EXCEPT ![d][level[d]] = a]
      BY <2>2, Zenon DEF GoTo
    <2>4. pc'[c][0] = "cli" <=> pc[c][0] = "cli"  BY <1>0, <2>2, <2>3 DEF IInv, TypeOK
    <2> QED  BY <2>1, <2>4 DEF Quiet
  <1>2. CASE d # c /\ Pushcli(d)  BY <1>0, <1>2, Zenon DEF IInv, TypeOK, Pushcli, GoTo, Quiet
  <1>3. CASE d # c /\ Popcli(d)  BY <1>0, <1>3 DEF IInv, TypeOK, Popcli, GoTo, Quiet
  <1>4. CASE d # c /\ (Sti(d) \/ Interrupt(d) \/ Iret(d))
    BY <1>4, Zenon DEF IInv, TypeOK, Sti, Interrupt, Iret, Quiet
  <1>5. ASSUME d # c, NEW l \in Lock, AcquireCall(d, l) PROVE Quiet(c)
    BY <1>0, <1>5 DEF IInv, TypeOK, AcquireCall, GoTo, Quiet
  <1> QED  BY <1>1, <1>2, <1>3, <1>4, <1>5, Zenon

\* What the other steps of c do to its flags.
LEMMA FlagSteps ==
  ASSUME IInv, NEW c \in CPU
  PROVE  /\ Pushcli(c) =>
               /\ pc[c][level[c]] = "cli" /\ level'[c] = level[c]
               /\ pc'[c][0] = "cli" <=> pc[c][0] = "cli" /\ level[c] # 0
               /\ ncli'[c] = ncli[c] + 1 /\ ~iflag'[c] /\ eflags'[c] = eflags[c]
               /\ intena'[c] = IF ncli[c] = 0 THEN eflags[c][level[c]] ELSE intena[c]
         /\ Popcli(c) =>
               /\ level'[c] = level[c] /\ eflags'[c] = eflags[c] /\ intena'[c] = intena[c]
               /\ pc'[c][0] = "cli" => pc[c][0] = "cli" /\ level[c] # 0
               /\ ncli[c] # 0 /\ ncli'[c] = ncli[c] - 1
               /\ iflag'[c] = (ncli[c] = 1 /\ intena[c])
         /\ \A l \in Lock : AcquireCall(c, l) =>
               /\ level'[c] = level[c] /\ ncli'[c] = ncli[c] /\ intena'[c] = intena[c]
               /\ iflag'[c] = iflag[c]
               /\ IF level[c] = 0
                    THEN eflags'[c][0] = iflag[c]
                    ELSE /\ eflags'[c][0] = eflags[c][0]
                         /\ pc'[c][0] = "cli" <=> pc[c][0] = "cli"
  <1>0. level[c] \in Level /\ 0 \in Level /\ level[c] \in {0, 1}  BY FlagFacts
  <1>1. ASSUME Pushcli(c)
        PROVE  /\ pc[c][level[c]] = "cli" /\ level'[c] = level[c]
               /\ pc'[c][0] = "cli" <=> pc[c][0] = "cli" /\ level[c] # 0
               /\ ncli'[c] = ncli[c] + 1 /\ ~iflag'[c] /\ eflags'[c] = eflags[c]
               /\ intena'[c] = IF ncli[c] = 0 THEN eflags[c][level[c]] ELSE intena[c]
    <2>1. /\ pc[c][level[c]] = "cli" /\ level'[c] = level[c] /\ eflags'[c] = eflags[c]
          /\ ncli'[c] = ncli[c] + 1 /\ ~iflag'[c]
      BY <1>1 DEF IInv, TypeOK, Pushcli, At
    <2>2. intena'[c] = IF ncli[c] = 0 THEN eflags[c][level[c]] ELSE intena[c]
      BY <1>1 DEF IInv, TypeOK, Pushcli
    <2>3. pc' = [pc EXCEPT ![c][level[c]] = "holding"]  BY <1>1 DEF Pushcli, GoTo
    <2>4. pc'[c][0] = "cli" <=> pc[c][0] = "cli" /\ level[c] # 0
      BY <1>0, <2>3 DEF IInv, TypeOK
    <2> QED  BY <2>1, <2>2, <2>4
  <1>2. ASSUME Popcli(c)
        PROVE  /\ level'[c] = level[c] /\ eflags'[c] = eflags[c] /\ intena'[c] = intena[c]
               /\ pc'[c][0] = "cli" => pc[c][0] = "cli" /\ level[c] # 0
               /\ ncli[c] # 0 /\ ncli'[c] = ncli[c] - 1
               /\ iflag'[c] = (ncli[c] = 1 /\ intena[c])
    <2>1. pc[c][level[c]] = "popcli" /\ UNCHANGED <<level, eflags, intena>>
      BY <1>2, Zenon DEF Popcli, At
    <2>2. ~iflag[c]  BY <1>0, <2>1, FlagFacts, Zenon
    <2>3. ncli[c] # 0
      <3>1. Pending(c, level[c]) = 1  BY <2>1, Zenon DEF Pending
      <3>2. CliOK(c) /\ IsFiniteSet(held[c][level[c]])  BY <1>0 DEF IInv, ContextOK
      <3>3. Cardinality(held[c][level[c]]) \in Nat  BY <3>2, FS_CardinalityType
      <3> QED  BY <3>1, <3>2, <3>3 DEF CliOK
    <2>4. /\ ncli' = [ncli EXCEPT ![c] = @ - 1] /\ GoTo(c, "run")
          /\ iflag' = [iflag EXCEPT ![c] = ncli[c] = 1 /\ intena[c]]
      BY <1>2, <2>2, <2>3, Zenon DEF Popcli
    <2>5. pc'[c][0] = "cli" => pc[c][0] = "cli" /\ level[c] # 0
      BY <1>0, <2>4 DEF IInv, TypeOK, GoTo
    <2>6. ncli'[c] = ncli[c] - 1  BY <2>4 DEF IInv, TypeOK
    <2>7. iflag'[c] = (ncli[c] = 1 /\ intena[c])  BY <2>4, Zenon DEF IInv, TypeOK
    <2> QED  BY <2>1, <2>3, <2>5, <2>6, <2>7, Zenon
  <1>3. ASSUME NEW l \in Lock, AcquireCall(c, l)
        PROVE  /\ level'[c] = level[c] /\ ncli'[c] = ncli[c] /\ intena'[c] = intena[c]
               /\ iflag'[c] = iflag[c]
               /\ IF level[c] = 0
                    THEN eflags'[c][0] = iflag[c]
                    ELSE /\ eflags'[c][0] = eflags[c][0]
                         /\ pc'[c][0] = "cli" <=> pc[c][0] = "cli"
    <2>1. UNCHANGED <<level, ncli, intena, iflag>>  BY <1>3, Zenon DEF AcquireCall
    <2>2. /\ eflags' = [eflags EXCEPT ![c][level[c]] = iflag[c]]
          /\ pc' = [pc EXCEPT ![c][level[c]] = "cli"]
      BY <1>3 DEF AcquireCall, GoTo
    <2>3. level[c] = 0 => eflags'[c][0] = iflag[c]  BY <1>0, <2>2 DEF IInv, TypeOK
    <2>4. level[c] # 0 => eflags'[c][0] = eflags[c][0] /\ pc'[c][0] = pc[c][0]
      BY <1>0, <2>2 DEF IInv, TypeOK
    <2> QED  BY <2>1, <2>3, <2>4, Zenon
  <1> QED  BY <1>1, <1>2, <1>3, Zenon

\* Every step keeps the eflags that pushcli() reads right, and the thread's
\* interrupts on once they are.
LEMMA FlagNext ==
  ASSUME IInv, NEW c \in CPU, [Next]_vars
  PROVE  /\ EflagsOK(c) => EflagsOK(c)'
         /\ On(c) => On(c)'
  <1> DEFINE Kept == (EflagsOK(c) => EflagsOK(c)') /\ (On(c) => On(c)')
  <1>0. /\ level[c] \in {0, 1} /\ ncli[c] \in Nat
        /\ iflag[c] => level[c] = 0 /\ ncli[c] = 0
        /\ pc[c][level[c]] = "run" /\ held[c][level[c]] = {} => ncli[c] = 0
        /\ iflag[c] \in BOOLEAN /\ intena[c] \in BOOLEAN
    BY FlagFacts DEF IInv, TypeOK
  <1>1. ASSUME Quiet(c) PROVE Kept  BY <1>1 DEF Quiet, EflagsOK, On
  <1>2. CASE UNCHANGED vars
    <2>1. Quiet(c)  BY <1>2 DEF vars, Quiet
    <2> QED  BY <1>1, <2>1
  <1>3. CASE Pushcli(c)
    <2>1. /\ pc[c][level[c]] = "cli" /\ level'[c] = level[c] /\ eflags'[c] = eflags[c]
          /\ pc'[c][0] = "cli" <=> pc[c][0] = "cli" /\ level[c] # 0
          /\ ncli'[c] = ncli[c] + 1
          /\ intena'[c] = IF ncli[c] = 0 THEN eflags[c][level[c]] ELSE intena[c]
      BY <1>3, FlagSteps, Zenon
    <2>2. ncli'[c] # 0  BY <1>0, <2>1
    <2>3. EflagsOK(c) => EflagsOK(c)'  BY <2>1, Zenon DEF EflagsOK
    <2>4. On(c) => On(c)'  BY <2>1, <2>2, Zenon DEF On
    <2> QED  BY <2>3, <2>4, Zenon
  <1>4. CASE Popcli(c)
    <2>1. /\ level'[c] = level[c] /\ eflags'[c] = eflags[c] /\ intena'[c] = intena[c]
          /\ pc'[c][0] = "cli" => pc[c][0] = "cli" /\ level[c] # 0
          /\ ncli[c] # 0 /\ ncli'[c] = ncli[c] - 1
          /\ iflag'[c] <=> ncli[c] = 1 /\ intena[c]
      BY <1>4, FlagSteps, Zenon
    <2>2. ncli'[c] = 0 <=> ncli[c] = 1  BY <1>0, <2>1
    <2>3. EflagsOK(c) => EflagsOK(c)'  BY <2>1, Zenon DEF EflagsOK
    <2>4. On(c) => On(c)'  BY <2>1, <2>2, Zenon DEF On
    <2> QED  BY <2>3, <2>4, Zenon
  <1>5. ASSUME NEW l \in Lock, AcquireCall(c, l) PROVE Kept
    <2>1. /\ level'[c] = level[c] /\ ncli'[c] = ncli[c] /\ intena'[c] = intena[c]
          /\ iflag'[c] = iflag[c]
          /\ level[c] = 0 => eflags'[c][0] = iflag[c]
          /\ level[c] # 0 => /\ eflags'[c][0] = eflags[c][0]
                             /\ pc'[c][0] = "cli" <=> pc[c][0] = "cli"
      BY <1>5, FlagSteps, Zenon
    <2>2. EflagsOK(c) => EflagsOK(c)'  BY <2>1, Zenon DEF EflagsOK
    <2>3. On(c) => On(c)'  BY <2>1, Zenon DEF On
    <2> QED  BY <2>2, <2>3, Zenon
  <1>6. CASE Sti(c)
    <2>1. /\ level[c] = 0 /\ pc[c][0] = "run" /\ ncli[c] = 0 /\ iflag'[c]
          /\ UNCHANGED <<level, ncli, pc>>
      BY <1>0, <1>6 DEF Sti, At, IInv, TypeOK
    <2> QED  BY <2>1, Zenon DEF EflagsOK, On
  <1>7. CASE Interrupt(c)
    <2>1. /\ iflag[c] /\ level'[c] = level[c] + 1 /\ level[c] = 0 /\ ncli[c] = 0
          /\ UNCHANGED <<pc, eflags>>
      BY <1>0, <1>7 DEF Interrupt, IInv, TypeOK
    <2>2. level'[c] # 0  BY <2>1
    <2> QED  BY <2>1, <2>2, Zenon DEF EflagsOK, On
  <1>8. CASE Iret(c)
    <2>1. /\ level'[c] = level[c] - 1 /\ level[c] # 0 /\ ncli[c] = 0 /\ iflag'[c]
          /\ UNCHANGED <<pc, eflags, ncli>>
      BY <1>0, <1>8 DEF Iret, At, IInv, TypeOK
    <2>2. level'[c] = 0  BY <1>0, <2>1
    <2>3. eflags[c][0] \in BOOLEAN /\ iflag'[c] = TRUE
      BY <1>8, FlagFacts DEF Iret, IInv, TypeOK
    <2> QED  BY <2>1, <2>2, <2>3, Zenon DEF EflagsOK, On
  <1>9. ASSUME NEW d \in CPU,
               \/ LockStep(d) \/ Sti(d) \/ Interrupt(d) \/ Iret(d)
               \/ \E l \in Lock : AcquireCall(d, l) \/ ReleaseCall(d, l)
        PROVE  Kept
    <2>1. CASE d = c
      BY <1>1, <1>3, <1>4, <1>5, <1>6, <1>7, <1>8, <1>9, <2>1, QuietSteps, Zenon DEF LockStep
    <2>2. CASE d # c
      BY <1>1, <1>9, <2>2, QuietSteps, Zenon DEF LockStep
    <2> QED  BY <2>1, <2>2
  <1> QED  BY <1>2, <1>9, Zenon DEF Next

\* "it takes two popcli to undo two pushcli": interrupts that a thread has on
\* are on again whenever its locks are all released, whatever it acquires and
\* releases, in whatever order, and whichever interrupts come in between.
THEOREM SpinLockFlagRestored == Spec => FlagRestored
  <1> SUFFICES ASSUME NEW c \in CPU
               PROVE  Spec => [](level[c] = 0 /\ ncli[c] = 0 /\ iflag[c]
                                   => [](level[c] = 0 /\ ncli[c] = 0 => iflag[c]))
    BY DEF FlagRestored
  <1>1. Init => EflagsOK(c)
    BY LockAssumption DEF Init, EflagsOK, Level
  <1>2. IInv /\ [Next]_vars => (EflagsOK(c) => EflagsOK(c)') /\ (On(c) => On(c)')
    BY FlagNext
  <1>3. EflagsOK(c) /\ level[c] = 0 /\ ncli[c] = 0 /\ iflag[c] => On(c)
    BY Zenon DEF EflagsOK, On
  <1>4. On(c) => (level[c] = 0 /\ ncli[c] = 0 => iflag[c])
    BY DEF On
  <1> QED  BY <1>1, <1>2, <1>3, <1>4, SpecIInv, PTL DEF Spec

-----------------------------------------------------------------------------
\* OwnerOf names the one CPU that owns a lock.
OwnerChar ==
  /\ \A c \in CPU, k \in Level, l \in Lock : Owns(c, k, l) => OwnerOf(l) = c
  /\ \A l \in Lock :
       (\A c \in CPU, k \in Level : ~Owns(c, k, l)) => OwnerOf(l) = NoCPU

\* Under the invariant OwnerOf names the only owner.
LEMMA OwnerUnique == IInv => OwnerChar
  <1>1. SUFFICES ASSUME IInv PROVE OwnerChar
    OBVIOUS
  <1>2. ASSUME NEW c \in CPU, NEW k \in Level, NEW l \in Lock, Owns(c, k, l)
        PROVE  OwnerOf(l) = c
    <2>1. \E d \in CPU : \E j \in Level : Owns(d, j, l)
      BY <1>2
    <2>2. OwnerOf(l) = CHOOSE d \in CPU : \E j \in Level : Owns(d, j, l)
      BY <2>1, ZenonT(30) DEF OwnerOf
    <2>3. OwnerOf(l) \in CPU /\ \E j \in Level : Owns(OwnerOf(l), j, l)
      BY <2>1, <2>2, ZenonT(30)
    <2>4. QED
      BY <1>1, <1>2, <2>3 DEF IInv, MutualExclusion
  <1>3. ASSUME NEW l \in Lock, \A c \in CPU, k \in Level : ~Owns(c, k, l)
        PROVE  OwnerOf(l) = NoCPU
    BY <1>3 DEF OwnerOf
  <1>4. QED
    BY <1>2, <1>3 DEF OwnerChar

\* A step that changes nobody's ownership is a stutter of the mutex.
LEMMA OwnerFrame ==
  ASSUME OwnerChar, OwnerChar',
         \A c \in CPU, k \in Level, l \in Lock : Owns(c, k, l)' <=> Owns(c, k, l)
  PROVE  [l \in Lock |-> OwnerOf(l)]' = [l \in Lock |-> OwnerOf(l)]
  <1>1. ASSUME NEW l \in Lock PROVE OwnerOf(l)' = OwnerOf(l)
    <2>1. CASE \E c \in CPU, k \in Level : Owns(c, k, l)
      BY <2>1 DEF OwnerChar
    <2>2. CASE \A c \in CPU, k \in Level : ~Owns(c, k, l)
      BY <2>2 DEF OwnerChar
    <2>3. QED
      BY <2>1, <2>2
  <1>2. QED
    BY <1>1

\* The successful xchg is Take of the mutex.
LEMMA XchgTakes ==
  ASSUME IInv, OwnerChar, OwnerChar', NEW c \in CPU, Xchg(c)
  PROVE  M!MutexNext
  <1>1. PICK a \in Lock, n \in Level : a = Arg(c) /\ n = level[c]
    BY SMTT(60) DEF IInv, TypeOK, ContextOK, Xchg, At, Arg
  <1>2. \A d \in CPU, k \in Level : ~Owns(d, k, a)
    BY <1>1, ZenonT(30) DEF IInv, LockOK, Xchg
  <1>3. Owns(c, n, a)'
    BY <1>1, LockAssumption, Zenon DEF IInv, TypeOK, Xchg, At, GoTo, Arg, Owns
  <1>4. \A d \in CPU, k \in Level, l \in Lock : l # a => (Owns(d, k, l)' <=> Owns(d, k, l))
    BY <1>1, LockAssumption DEF IInv, TypeOK, ContextOK, Xchg, At, GoTo, Arg, Owns
  <1>5. OwnerOf(a) = NoCPU /\ OwnerOf(a)' = c
    BY <1>1, <1>2, <1>3 DEF OwnerChar, Xchg
  <1>6. \A l \in Lock : l # a => OwnerOf(l)' = OwnerOf(l)
    BY <1>4 DEF OwnerChar
  <1>7. M!Take(c, a)
    BY <1>1, <1>5, <1>6, ZenonT(60) DEF M!Take
  <1>8. QED
    BY <1>1, <1>7, Zenon DEF M!MutexNext

\* The store of 0 in lk->locked is Give.
LEMMA UnlockGives ==
  ASSUME IInv, OwnerChar, OwnerChar', NEW c \in CPU, Unlock(c)
  PROVE  M!MutexNext
  <1>1. PICK a \in Lock, n \in Level : a = Arg(c) /\ n = level[c]
    BY DEF IInv, TypeOK, ContextOK, Unlock, At, Arg
  <1>2. Owns(c, n, a)
    BY <1>1, ZenonT(30) DEF Unlock, At, Arg, Owns
  <1>3. \A d \in CPU, k \in Level : ~Owns(d, k, a)'
    <2>1. a \notin held[c][n]
      BY <1>1, ZenonT(60) DEF IInv, ContextOK, Unlock, At, Arg
    <2>2. ASSUME NEW d \in CPU, NEW k \in Level, ~(d = c /\ k = n) PROVE ~Owns(d, k, a)'
      <3>1. ~Owns(d, k, a)
        BY <1>2, <2>2, Zenon DEF IInv, MutualExclusion
      <3>2. held'[d][k] = held[d][k] /\ lk'[d][k] = lk[d][k] /\ pc'[d][k] = pc[d][k]
        BY <1>1, <2>2, Zenon DEF IInv, TypeOK, Unlock, GoTo
      <3>3. QED
        BY <3>1, <3>2, ZenonT(30) DEF Owns
    <2>3. ~Owns(c, n, a)'
      BY <1>1, <2>1, Zenon DEF IInv, TypeOK, Unlock, GoTo, Owns
    <2>4. QED
      BY <2>2, <2>3, SMTT(60)
  <1>4. \A d \in CPU, k \in Level, l \in Lock : l # a => (Owns(d, k, l)' <=> Owns(d, k, l))
    BY <1>1, LockAssumption DEF IInv, TypeOK, ContextOK, Unlock, At, GoTo, Arg, Owns
  <1>5. OwnerOf(a) = c /\ OwnerOf(a)' = NoCPU
    BY <1>1, <1>2, <1>3 DEF OwnerChar, Unlock
  <1>6. \A l \in Lock : l # a => OwnerOf(l)' = OwnerOf(l)
    BY <1>4 DEF OwnerChar
  <1>7. M!Give(c, a)
    BY <1>1, <1>5, <1>6, ZenonT(30) DEF M!Give
  <1>8. QED
    BY <1>1, <1>7, Zenon DEF M!MutexNext

\* Spin locks implement the atomic mutex: the xchg that reads 0 is Take, the
\* store of 0 in release() is Give, every other step is invisible.
THEOREM SpinLockImplementsMutex == Spec => ImplementsMutex
  <1>1. Init => M!MutexInit
    <2>1. SUFFICES ASSUME Init PROVE M!MutexInit
      OBVIOUS
    <2>2. \A c \in CPU, k \in Level, l \in Lock : ~Owns(c, k, l)
      BY <2>1 DEF Init, Owns
    <2>3. \A l \in Lock : OwnerOf(l) = NoCPU
      BY <2>2 DEF OwnerOf
    <2>4. QED
      BY <2>3 DEF M!MutexInit
  <1>2. IInv /\ OwnerChar /\ OwnerChar' /\ [Next]_vars
          => [M!MutexNext]_([l \in Lock |-> OwnerOf(l)])
    <2>1. SUFFICES ASSUME IInv, OwnerChar, OwnerChar', [Next]_vars
                   PROVE  \/ M!MutexNext
                          \/ [l \in Lock |-> OwnerOf(l)]' = [l \in Lock |-> OwnerOf(l)]
      OBVIOUS
    <2>2. CASE UNCHANGED vars
      <3>1. \A c \in CPU, k \in Level, l \in Lock : Owns(c, k, l)' <=> Owns(c, k, l)
        BY <2>2 DEF vars, Owns
      <3>2. QED
        BY <2>1, <3>1, OwnerFrame
    <2>3. ASSUME NEW c \in CPU, Xchg(c) PROVE M!MutexNext
      BY <2>1, <2>3, XchgTakes
    <2>4. ASSUME NEW c \in CPU, Unlock(c) PROVE M!MutexNext
      BY <2>1, <2>4, UnlockGives
    <2>5. ASSUME NEW c \in CPU,
                 \/ Pushcli(c) \/ HoldingLocked(c) \/ HoldingCpu(c) \/ SetCpu(c) \/ ClearCpu(c)
                 \/ Popcli(c) \/ Sti(c) \/ Interrupt(c) \/ Iret(c)
                 \/ \E m \in Lock : AcquireCall(c, m) \/ ReleaseCall(c, m)
          PROVE  [l \in Lock |-> OwnerOf(l)]' = [l \in Lock |-> OwnerOf(l)]
      <3>1. \A d \in CPU, k \in Level, l \in Lock : Owns(d, k, l)' <=> Owns(d, k, l)
        BY <2>1, <2>5, OwnsStutter
      <3>2. QED
        BY <2>1, <3>1, OwnerFrame
    <2>6. QED
      BY <2>1, <2>2, <2>3, <2>4, <2>5 DEF Next, LockStep
  <1>3. QED
    BY <1>1, <1>2, SpecIInv, OwnerUnique, PTL DEF Spec, ImplementsMutex, M!MutexSpec
=============================================================================
