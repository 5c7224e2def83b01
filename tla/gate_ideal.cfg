CONSTANTS
  Item = {1, 2, 3, 4}
  NoItem = 0
  InitWindow = 2
  WindowFloor = 1
  IncreaseType = "linear"
  IncreaseFactor = 1
  DecreaseType = "exponential"
  DecreaseFactor = 2
  Change <- Changes2
  Needs <- BNeedsA
  Gated <- AllGated
  Job = {Unit}
  JobOrder <- OneJob
  Above <- Flat
  HoldJobs = {}
  Mutex = {}
  MutexOf <- NoMutexes
  NoMutex = NoMutex
  Layouts <- JustThis
  FirstLayout <- AllVoting
  Idle = Idle
  Faults = {"refused", "reporter", "unseen", "query"}
  MaxFaults = 1
  MaxCommands = 1
  MaxEvents = 3
  A = A
  B = B
  C = C
  Unit = Unit
  Lint = Lint
  Lock = Lock
SPECIFICATION Spec
CHECK_DEADLOCK FALSE
INVARIANTS
  QueuedOnce
  NeverStuck
PROPERTIES
  DependenciesFirst
  ImplementsIdeal
