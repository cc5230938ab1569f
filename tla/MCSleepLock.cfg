SPECIFICATION FairSpec
CONSTANTS
  Proc = {p1, p2, p3}
  inode = inode
  buf = buf
  Lock = {inode, buf}
  NoProc = NoProc
  NoLock = NoLock
  MayNest <- MCMayNest
  MaxKills = 2
PROPERTIES
  ImplementsMutex
  SleeperWoken
