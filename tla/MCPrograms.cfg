CONSTANTS
  Sleeper = {1, 2}
  WORD = 8
  Naps <- NapArguments
  LAG = 2
  MAX_THREAD = 5
  MaxTurns = 2
  MaxCreated = 6
  BUFFER_SIZE = 2
  ITEMS = 5
  MaxAborts = 1
  VUELTAS = 3
  MaxRestarts = 1
  UINT = 16
  INT = 2
  KERNBASE = 8
  User = {1, 2}
  MaxSemaphores = 2
  MaxUps = 1
  CHILD_MAX = 4
  MaxHijos = 3
  MaxInts = 2
  Terminal = {1, 2}
  STACK_ITEMS = 2
  MaxKills = 1
SPECIFICATION Spec
INVARIANTS
  ConsoleSound
  SleepExact
  ArgsInside
  HeapSound
  ThreadsSound
  StringsSound
  ShellSound
  GrepSound
  ImageSound
  PagesSound
  ItemsInOrder
  CountsRounds
  ZoneGuarded
  NoneLeftBehind
  StackSound
CHECK_DEADLOCK FALSE
