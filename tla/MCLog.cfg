SPECIFICATION FairSpec
CONSTANTS
  Proc = {p1, p2}
  Block = {b1, b2}
  Val = {0, 1}
  NoBlock = NoBlock
  NoData = NoData
  MAXOPBLOCKS = 3
  LOGSIZE = 6
  nlog = 6
  OpBlocks = 2
INVARIANTS
  DurableWhenQuiet
PROPERTIES
  ImplementsJournal
  SleeperWoken
