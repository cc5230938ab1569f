SPECIFICATION FairSpec
CONSTANTS
  tickslock = tickslock
  ptable = ptable
  CPU = {c1, c2}
  Lock = {tickslock, ptable}
  NoCPU = NoCPU
  NoLock = NoLock
  MayNest <- MCMayNest
  MaxDepth = 1
INVARIANTS
  NoPanic
PROPERTIES
  ImplementsMutex
  FlagRestored
  NoStandstill
