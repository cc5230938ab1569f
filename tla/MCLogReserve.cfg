SPECIFICATION Spec
CONSTANTS
  Proc = {p1, p2}
  Block = {b1, b2, b3, b4}
  Val = {0}
  NoBlock = NoBlock
  NoData = NoData
  MAXOPBLOCKS = 2
  LOGSIZE = 4
  nlog = 4
  OpBlocks = 2
INVARIANT
  ReservationSuffices
