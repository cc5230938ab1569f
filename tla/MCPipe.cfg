SPECIFICATION FairSpec
CONSTANTS
  Writer = {w1, w2}
  Reader = {r1}
  NoProc = NoProc
  Val = {0, 1}
  PIPESIZE = 2
  UINT = 4
  Message <- MCMessage
  ReadSize = {2}
INVARIANTS
  PipeSound
PROPERTIES
  ImplementsFifo
  CloseUnblocks
CHECK_DEADLOCK FALSE
