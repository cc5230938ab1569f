SPECIFICATION KernelSpec
CONSTANTS
  Proc = {p1, p2}
  NoProc = NoProc
  NINODES = 5
  NINODE = 4
  NFILE = 1
  Request <- Calls
  Starts <- Before
  MaxCalls = 3
  MaxCrashes = 1
  Writer = {1, 2}
  File = {1, 2, 3}
  NFILES = 2
  NBLOCKS = 5
  BSIZE = 2
  NDIRECT = 1
  OPBLOCKS = 6
  Lengths = {1, 3, 5}
  MaxWrites = 2
  MaxTrunc = 1
  Task = {1, 2}
  NTABLE = 3
  NOFILE = 2
  NPIPE = 1
  NCPUS = 3
  NLOW = 4
  NPAGES = 5
  NFRAMES = 14
  PGSIZE = 2
  NPTENTRIES = 3
  NPDENTRIES = 2
  Increments <- Incs
  Programs <- Progs
INVARIANTS
  NamesSound
  InodesHeld
  FilesKeepBytes
  DescriptorsSound
  MemorySound
  BootSound
SYMMETRY Sym
CHECK_DEADLOCK FALSE
