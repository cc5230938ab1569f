SPECIFICATION BlocksSpec
CONSTANTS
  Proc = {p1, p2}
  Block = {k1, k2, k3, k4}
  Val = {0, 1}
  Buf = {x1, x2, x3}
  NoProc = NoProc
  NoBlock = NoBlock
  NoBuf = NoBuf
  NoCmd = NoCmd
  MaxPinned = 1
  q = q
  NoData = NoData
  MAXOPBLOCKS = 2
  LOGSIZE = 4
  nlog = 4
INVARIANTS
  CacheSound
  LogHolds
SYMMETRY Symmetry
