CONSTANTS
  Item = {1, 2, 3}
  NoItem = 0
  InitWindow = 3
  WindowFloor = 1
  IncreaseType = "linear"
  IncreaseFactor = 1
  DecreaseType = "exponential"
  DecreaseFactor = 2
  Change <- Changes3
  Needs <- Independent
  Gated <- AllGated
  Job = {Unit}
  JobOrder <- OneJob
  Above <- Flat
  HoldJobs = {}
  Mutex = {Lock}
  MutexOf <- UnitLocks
  NoMutex = NoMutex
  Layouts <- JustThis
  FirstLayout <- AllVoting
  Idle = Idle
  Faults = {}
  MaxFaults = 0
  MaxCommands = 0
  MaxEvents = 3
  A = A
  B = B
  C = C
  Unit = Unit
  Lint = Lint
  Lock = Lock
SPECIFICATION ApprovedSpec
CHECK_DEADLOCK FALSE
INVARIANTS
  NeverStuck
