SPECIFICATION ProgressSpec
CONSTANTS
  NPROC = 3
  CPU = {c1}
  NoCPU = NoCPU
  MaxPid = 4
  KillPid = {2, 3}
PROPERTIES
  KilledExits
