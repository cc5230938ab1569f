SPECIFICATION FairSpec
CONSTANTS
  NPROC = 3
  CPU = {c1, c2}
  NoCPU = NoCPU
  MaxPid = 3
  KillPid = {2, 3}
INVARIANTS
  StacksSound
  FamiliesSound
  SlotsSound
PROPERTIES
  ProcessesProgress
