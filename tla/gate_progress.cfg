CONSTANTS
  Item = {1, 2}
  NoItem = 0
  InitWindow = 2
  WindowFloor = 1
  IncreaseType = "linear"
  IncreaseFactor = 1
  DecreaseType = "exponential"
  DecreaseFactor = 2
  Change <- Changes2
  Needs <- Independent
  Gated <- AllGated
  Job = {Unit}
  JobOrder <- OneJob
  Above <- Flat
  HoldJobs = {}
  Mutex = {}
  MutexOf <- NoMutexes
  NoMutex = NoMutex
  Layouts <- JustThis
  FirstLayout <- AllVoting
  Idle = Idle
  Faults = {"refused", "reporter", "unseen", "query", "submit", "retry"}
  MaxFaults = 1
  MaxCommands = 0
  MaxEvents = 3
  A = A
  B = B
  C = C
  Unit = Unit
  Lint = Lint
  Lock = Lock
SPECIFICATION FairSpec
CHECK_DEADLOCK FALSE
PROPERTIES
  EveryItemLeaves
